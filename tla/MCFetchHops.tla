----------------------------- MODULE MCFetchHops -----------------------------
(* An instance of FetchHops: a subresource and a navigation, one slot per   *)
(* origin, two hosts of which one is reached both ways, and chains of up to *)
(* two redirects.                                                           *)
EXTENDS FetchHops

CONSTANTS f1, f2, hostA, hostB

U(s, h) == [scheme |-> s, host |-> h]

MCStarts == {U("http", hostA), U("https", hostA),
             U("ftp", hostB), U("local", hostB)}

MCUrls == MCStarts \cup {U("https", hostB)}
=============================================================================
