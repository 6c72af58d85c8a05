------------------------------ MODULE FetchHops ------------------------------
(***************************************************************************)
(* ns_fetch_sync of src/src/net.c: one fetch is a chain of hops, each hop   *)
(* one exchange with a server, and the loop that follows redirects from hop *)
(* to hop.  An http or https hop holds a slot of its origin while it runs;  *)
(* an ftp URL has no origin, and its hop no slot and no limit.              *)
(*                                                                         *)
(* Every fetch runs on a thread of its own.  The fetches share the slots of *)
(* the origins (g_origin_slots), the hosts that lately refused a connection *)
(* (g_dead_hosts) and the abort flag (g_net_aborting).                      *)
(*                                                                         *)
(* A URL is its scheme and its host: paths, headers other than the secret   *)
(* ones, methods and bodies are left out.  What the HSTS store, the cache,  *)
(* the extension filter and the server answer is chosen freely.  A thread   *)
(* that waits for a slot wakes at a signal or after 250 ms and looks at the *)
(* count again either way, so a wake is simply another look.                *)
(***************************************************************************)
EXTENDS Integers, FiniteSets

CONSTANTS
    Fetches,       \* the calls of ns_fetch_sync
    Navigations,   \* those with an X-ND-Navigate header
    Urls,          \* the URLs that callers and servers name
    Starts,        \* those that callers name
    MaxPerOrigin,  \* NS_NET_MAX_PER_ORIGIN
    MaxRedirects   \* max_redirs: the configured limit, clamped

Hosts == {u.host : u \in Urls}

(* ns_url_is_http_or_https. *)
Web(u) == u.scheme \in {"http", "https"}

(* ns_net_hsts_upgrade: an http URL is sent by https if the store knows its *)
(* host, which this model leaves open.                                      *)
Upgrades(u) ==
    {u} \cup (IF u.scheme = "http"
               THEN {[scheme |-> "https", host |-> u.host]} ELSE {})

(* What a hop may contact.                                                 *)
Targets == UNION {Upgrades(u) : u \in Urls}

(* ns_url_origin_from knows an origin for http and https only; such a URL   *)
(* stands for its own.                                                      *)
Origins == {u \in Targets : Web(u)}

ASSUME HopsAssumption ==
    /\ IsFiniteSet(Fetches)
    /\ Navigations \subseteq Fetches
    /\ Starts \subseteq Urls
    /\ \A u \in Urls : /\ u = [scheme |-> u.scheme, host |-> u.host]
                       /\ u.scheme \in {"http", "https", "ftp", "local"}
    /\ MaxPerOrigin \in Nat \ {0}
    /\ MaxRedirects \in Nat

VARIABLES
    pc,         \* where each fetch is
    first,      \* the URL the caller asked for
    url,        \* cur_url, then the URL the hop contacts
    hops,       \* redirects followed
    secrets,    \* hop_headers still holds Authorization or Cookie
    outcome,    \* what the transport of the hop brought back
    cancelled,  \* the GCancellable of each fetch
    inUse,      \* in_use of the slot of each origin (an absent slot counts 0)
    dead,       \* g_dead_hosts
    aborting    \* g_net_aborting

vars == <<pc, first, url, hops, secrets, outcome, cancelled,
          inUse, dead, aborting>>

(* "hop": at the head of ns_fetch_sync_hop; "slot": asks for a slot;        *)
(* "transfer": inside the transport, with the slot if it needs one; "back": *)
(* still with it, the transport has returned; "landed": without it, in the  *)
(* redirect loop.                                                           *)
Phases == {"new", "hop", "slot", "transfer", "back", "landed", "done"}

(* "answer", "redirect": a complete response; "broken": a status arrived    *)
(* but the transfer failed; "unreachable": no connection; "silent": any     *)
(* other failure without a status; "abandoned": the transport produced      *)
(* nothing, being cancelled or not started.                                 *)
Outcomes == {"none", "answer", "redirect", "broken", "unreachable",
             "silent", "abandoned"}

TypeOK ==
    /\ pc \in [Fetches -> Phases]
    /\ first \in [Fetches -> Starts]
    /\ url \in [Fetches -> Targets]
    /\ hops \in [Fetches -> 0..MaxRedirects]
    /\ secrets \in [Fetches -> BOOLEAN]
    /\ outcome \in [Fetches -> Outcomes]
    /\ cancelled \in [Fetches -> BOOLEAN]
    /\ inUse \in [Origins -> 0..MaxPerOrigin]
    /\ dead \subseteq Hosts
    /\ aborting \in BOOLEAN

Init ==
    /\ pc = [f \in Fetches |-> "new"]
    /\ first \in [Fetches -> Starts]
    /\ url = first
    /\ hops = [f \in Fetches |-> 0]
    /\ secrets = [f \in Fetches |-> TRUE]
    /\ outcome = [f \in Fetches |-> "none"]
    /\ cancelled = [f \in Fetches |-> FALSE]
    /\ inUse = [o \in Origins |-> 0]
    /\ dead = {}
    /\ aborting = FALSE

GoTo(f, p) == pc' = [pc EXCEPT ![f] = p]

-----------------------------------------------------------------------------
(* The head of ns_fetch_sync and of a hop.                                 *)

(* The call begins; an extension may block anything but a navigation.       *)
Start(f) ==
    /\ pc[f] = "new"
    /\ \/ GoTo(f, "hop")
       \/ f \notin Navigations /\ GoTo(f, "done")
    /\ UNCHANGED <<first, url, hops, secrets, outcome, cancelled,
                   inUse, dead, aborting>>

(* ns_net_host_recently_dead: a navigation tries the host all the same. *)
Shunned(f) == f \notin Navigations /\ Web(url[f]) /\ url[f].host \in dead

(* The hop ends without touching the network: the host is shunned, the URL  *)
(* is answered in place (about:, data:, file:), an ftp URL is refused to a  *)
(* page, or the cache holds a fresh response (never a redirect, only        *)
(* statuses below 300 are stored).  Only for an ftp navigation is there no  *)
(* such way.                                                                *)
EndWithoutNetwork(f) ==
    /\ pc[f] = "hop"
    /\ url[f].scheme = "ftp" => f \notin Navigations
    /\ GoTo(f, "done")
    /\ UNCHANGED <<first, url, hops, secrets, outcome, cancelled,
                   inUse, dead, aborting>>

(* The hop needs the network: the URL is upgraded and its slot asked for.   *)
AskForSlot(f) ==
    /\ pc[f] = "hop"
    /\ ~Shunned(f)
    /\ Web(url[f])
    /\ \E u \in Upgrades(url[f]) : url' = [url EXCEPT ![f] = u]
    /\ GoTo(f, "slot")
    /\ UNCHANGED <<first, hops, secrets, outcome, cancelled,
                   inUse, dead, aborting>>

(* origin_slot is NULL: the transfer begins at once, whatever runs.         *)
GoWithoutSlot(f) ==
    /\ pc[f] = "hop"
    /\ url[f].scheme = "ftp"
    /\ GoTo(f, "transfer")
    /\ UNCHANGED <<first, url, hops, secrets, outcome, cancelled,
                   inUse, dead, aborting>>

-----------------------------------------------------------------------------
(* ns_net_acquire_origin_slot.                                             *)

(* Mutant: the count is compared one too high.                             *)
AcquireSlotOneTooMany(f) ==
    /\ pc[f] = "slot"
    /\ inUse[url[f]] <= MaxPerOrigin
    /\ inUse' = [inUse EXCEPT ![url[f]] = @ + 1]
    /\ GoTo(f, "transfer")
    /\ UNCHANGED <<first, url, hops, secrets, outcome, cancelled,
                   dead, aborting>>

AcquireSlot(f) ==
    /\ pc[f] = "slot"
    /\ inUse[url[f]] < MaxPerOrigin
    /\ inUse' = [inUse EXCEPT ![url[f]] = @ + 1]
    /\ GoTo(f, "transfer")
    /\ UNCHANGED <<first, url, hops, secrets, outcome, cancelled,
                   dead, aborting>>

(* Mutant: the wait tests the abort flag in place of the cancellable.      *)
GiveUpSlotOnAbort(f) ==
    /\ pc[f] = "slot"
    /\ inUse[url[f]] >= MaxPerOrigin
    /\ aborting
    /\ GoTo(f, "done")
    /\ UNCHANGED <<first, url, hops, secrets, outcome, cancelled,
                   inUse, dead, aborting>>

(* Only a full origin makes the loop look at the cancellable. *)
GiveUpSlot(f) ==
    /\ pc[f] = "slot"
    /\ inUse[url[f]] >= MaxPerOrigin
    /\ cancelled[f]
    /\ GoTo(f, "done")
    /\ UNCHANGED <<first, url, hops, secrets, outcome, cancelled,
                   inUse, dead, aborting>>

-----------------------------------------------------------------------------
(* ns_hop_transport_curl, and the rest of the hop.                         *)

Comes(f, o) ==
    /\ pc[f] = "transfer"
    /\ outcome' = [outcome EXCEPT ![f] = o]
    /\ GoTo(f, "back")
    /\ UNCHANGED <<first, url, hops, secrets, cancelled,
                   inUse, dead, aborting>>

(* The server, the network or the timeout of curl ends the transfer, or it  *)
(* could not be started.  An ftp status is no redirect.                     *)
TransferEnds(f) ==
    \E o \in Outcomes \ {"none"} :
        /\ o = "redirect" => Web(url[f])
        /\ Comes(f, o)

(* Mutant: the progress callback does not look at g_net_aborting.          *)
CurlAbortsIfCancelled(f) == cancelled[f] /\ Comes(f, "abandoned")

(* ns_xferinfo_cb stops the transfer.  Without a cancellation the hop goes  *)
(* on with a failed transfer, which may have seen a status already.         *)
CurlAborts(f) ==
    IF cancelled[f]
    THEN Comes(f, "abandoned")
    ELSE aborting /\ \E o \in {"broken", "silent"} : Comes(f, o)

(* ns_net_host_mark_alive and ns_net_host_mark_dead. *)
Reached(f) ==
    CASE outcome[f] \in {"answer", "redirect", "broken"} ->
            dead \ {url[f].host}
      [] outcome[f] = "unreachable" -> dead \cup {url[f].host}
      [] OTHER -> dead

(* ns_net_release_origin_slot, if origin_held.                             *)
Released(f) ==
    IF Web(url[f]) THEN [inUse EXCEPT ![url[f]] = @ - 1] ELSE inUse

(* Mutant: the early return after a transport that produced nothing keeps   *)
(* the slot.                                                                *)
EndHopKeepingSlot(f) ==
    /\ pc[f] = "back"
    /\ dead' = Reached(f)
    /\ inUse' = IF outcome[f] = "abandoned"
                THEN inUse ELSE Released(f)
    /\ GoTo(f, IF outcome[f] = "redirect" THEN "landed" ELSE "done")
    /\ \E u \in Upgrades(url[f]) : url' = [url EXCEPT ![f] = u]
    /\ outcome' = [outcome EXCEPT ![f] = "none"]
    /\ UNCHANGED <<first, hops, secrets, cancelled, aborting>>

(* The hop notes whether its host was reached, releases the slot and        *)
(* returns.  The two take different locks and touch nothing in common, so   *)
(* they are one step.  Only a redirect makes the loop of ns_fetch_sync go   *)
(* on; its base is the effective URL, which curl may have upgraded itself.  *)
EndHop(f) ==
    /\ pc[f] = "back"
    /\ dead' = Reached(f)
    /\ inUse' = Released(f)
    /\ GoTo(f, IF outcome[f] = "redirect" THEN "landed" ELSE "done")
    /\ \E u \in Upgrades(url[f]) : url' = [url EXCEPT ![f] = u]
    /\ outcome' = [outcome EXCEPT ![f] = "none"]
    /\ UNCHANGED <<first, hops, secrets, cancelled, aborting>>

-----------------------------------------------------------------------------
(* The loop of ns_fetch_sync after a redirect.                             *)

(* A fetch that began on https goes on by https, unless it navigates. *)
Allowed(f, n) ==
    /\ Web(n)
    /\ \/ first[f].scheme # "https"
       \/ n.scheme = "https"
       \/ f \in Navigations

(* Mutant: hosts are compared where the code compares origins.             *)
KeepsSecretsOfHost(base, n) == base.host = n.host

(* ns_headers_strip_sensitive runs when the origin changes. *)
KeepsSecrets(base, n) == base = n

(* The chain ends with the redirect as its response: no usable Location,    *)
(* one redirect too many, or a target that is not allowed.                  *)
StopAtRedirect(f) ==
    /\ pc[f] = "landed"
    /\ GoTo(f, "done")
    /\ UNCHANGED <<first, url, hops, secrets, outcome, cancelled,
                   inUse, dead, aborting>>

(* Mutant: the hop count is not raised.                                    *)
FollowUncounted(f, n) ==
    /\ pc[f] = "landed"
    /\ hops[f] < MaxRedirects
    /\ Allowed(f, n)
    /\ secrets' = [secrets EXCEPT ![f] = @ /\ KeepsSecrets(url[f], n)]
    /\ url' = [url EXCEPT ![f] = n]
    /\ GoTo(f, IF cancelled[f] THEN "done" ELSE "hop")
    /\ UNCHANGED <<first, hops, outcome, cancelled, inUse, dead, aborting>>

Follow(f, n) ==
    /\ pc[f] = "landed"
    /\ hops[f] < MaxRedirects
    /\ Allowed(f, n)
    /\ secrets' = [secrets EXCEPT ![f] = @ /\ KeepsSecrets(url[f], n)]
    /\ url' = [url EXCEPT ![f] = n]
    /\ hops' = [hops EXCEPT ![f] = @ + 1]
    /\ GoTo(f, IF cancelled[f] THEN "done" ELSE "hop")
    /\ UNCHANGED <<first, outcome, cancelled, inUse, dead, aborting>>

-----------------------------------------------------------------------------
(* The world around the fetches.                                           *)

Cancel(f) ==
    /\ pc[f] # "done"
    /\ cancelled' = [cancelled EXCEPT ![f] = TRUE]
    /\ UNCHANGED <<pc, first, url, hops, secrets, outcome,
                   inUse, dead, aborting>>

(* Two minutes later the mark of a dead host no longer counts. *)
Forget(h) ==
    /\ h \in dead
    /\ dead' = dead \ {h}
    /\ UNCHANGED <<pc, first, url, hops, secrets, outcome, cancelled,
                   inUse, aborting>>

(* ns_net_drain. *)
Abort ==
    /\ ~aborting
    /\ aborting' = TRUE
    /\ UNCHANGED <<pc, first, url, hops, secrets, outcome, cancelled,
                   inUse, dead>>

(* The steps a fetch takes by itself, given a free slot or a reason to      *)
(* leave: curl calls the progress callback at least once a second.          *)
LocalStep(f) ==
    \/ EndWithoutNetwork(f)
    \/ AskForSlot(f)
    \/ GoWithoutSlot(f)
    \/ AcquireSlot(f)
    \/ GiveUpSlot(f)
    \/ CurlAborts(f)
    \/ EndHop(f)
    \/ StopAtRedirect(f)
    \/ \E n \in Urls : Follow(f, n)

Next ==
    \/ \E f \in Fetches : Start(f) \/ LocalStep(f) \/ TransferEnds(f)
                          \/ Cancel(f)
    \/ \E h \in Hosts : Forget(h)
    \/ Abort

Spec == Init /\ [][Next]_vars

(* Threads run, and CURLOPT_TIMEOUT ends every transfer.                    *)
LocalFairness == \A f \in Fetches : WF_vars(LocalStep(f))

Fairness == LocalFairness /\ \A f \in Fetches : WF_vars(TransferEnds(f))

-----------------------------------------------------------------------------
(* Properties.                                                             *)

Holders(o) == {f \in Fetches : pc[f] \in {"transfer", "back"} /\ url[f] = o}

(* in_use of an http or https origin is the number of fetches between the   *)
(* acquisition and the release of one of its slots, whichever way each hop  *)
(* ended and whatever URL a redirect led to: a slot that leaks, or is       *)
(* returned to another origin, never comes back.                            *)
SlotsExact == \A o \in Origins : inUse[o] = Cardinality(Holders(o))

(* The count is exact and never above NS_NET_MAX_PER_ORIGIN, whoever waits, *)
(* gives up or is redirected into the origin (net.c:161), while transfers   *)
(* without an origin come and go uncounted (net.c:5158).                    *)
SlotsSound == SlotsExact /\ \A o \in Origins : inUse[o] <= MaxPerOrigin

(* Authorization and Cookie headers of the caller reach no origin but the   *)
(* one the caller named, or that one upgraded to https, however long the    *)
(* chain of redirects and even if it comes back.                            *)
SecretsStayHome ==
    \A f \in Fetches :
        pc[f] \in {"slot", "transfer", "back"} /\ secrets[f] =>
            url[f] \in Upgrades(first[f])

(* Every fetch returns: the chain of redirects ends, no slot is held while  *)
(* another is waited for, and the slots others hold come back.              *)
EveryFetchEnds ==
    Fairness => \A f \in Fetches : (pc[f] = "hop") ~> (pc[f] = "done")

(* A cancelled fetch leaves the wait for a slot even if no slot is ever     *)
(* released: only the threads that wait are assumed to run.                 *)
CancelEndsTheWait ==
    \A f \in Fetches :
        WF_vars(AcquireSlot(f) \/ GiveUpSlot(f)) =>
            ((pc[f] = "slot" /\ cancelled[f]) ~> pc[f] # "slot")

(* Once g_net_aborting is raised every fetch returns without the help of    *)
(* any server, those included that wait for a slot, where the flag is not   *)
(* looked at.                                                               *)
AbortEndsEveryFetch ==
    LocalFairness =>
        \A f \in Fetches :
            (aborting /\ pc[f] \notin {"new", "done"}) ~> (pc[f] = "done")

(* A fetch that is told to stop stops, with nobody's help: cancelled, it    *)
(* leaves the wait for a slot (net.c:159); aborted, it returns.             *)
StopIsHeeded == CancelEndsTheWait /\ AbortEndsEveryFetch
=============================================================================
