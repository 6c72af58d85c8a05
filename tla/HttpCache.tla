------------------------------ MODULE HttpCache ------------------------------
(***************************************************************************)
(* The HTTP cache of src/src/cache.c: SQLite rows that describe responses,  *)
(* and one file for each body.  Every renderer process opens both.          *)
(*                                                                         *)
(* Inside a process g_cache_mutex lets one thread in at a time: a process   *)
(* is its job, what the thread that holds the mutex is in the middle of.    *)
(* A statement of SQLite and a call that writes, reads or removes a file    *)
(* are one step each, so that a process may end, and other processes may    *)
(* act, between any two.  Start and shutdown do not take the mutex.        *)
(*                                                                         *)
(* A response is named by the bytes of its body; a request is the set of    *)
(* the keys its URL, partition and headers can select: the key without a    *)
(* selector, and the ones of the Vary values a response may come with.      *)
(* An operation whose first statement fails changes nothing: that is no     *)
(* step.  A table that an upgrade has dropped and not yet made again is     *)
(* taken for an empty one, so a store may go on where the code's fails.     *)
(*                                                                         *)
(* The specification's names carry Cache, so that one module can extend     *)
(* this one beside Watchdog.                                               *)
(***************************************************************************)
EXTENDS Integers, FiniteSetsExt

CONSTANTS
    Processes,  \* renderer processes with this cache directory
    Keys,       \* row keys, ordered as SQLite orders them
    Requests,   \* what is asked for: sets of keys
    Responses,  \* sizes of the bodies
    Cap,        \* cache_cap_bytes
    MaxAge,     \* NS_CACHE_MAX_AGE_SECONDS
    Lifetimes,  \* what freshness_from_headers grants; 0: nothing
    MaxClock,   \* bound: the seconds the clock shows
    MaxSurprises,  \* bound: processes killed, calls that fail, clock changes
    NoRow, NoBody

ASSUME CacheAssumption ==
    /\ Keys \subseteq Nat
    /\ Requests \subseteq SUBSET Keys
    /\ Responses \subseteq 0 .. Cap
    /\ Cap \in Nat /\ MaxAge \in Nat /\ MaxClock \in Nat /\ MaxSurprises \in Nat
    /\ Lifetimes \subseteq Nat
    /\ NoBody \notin Responses
    /\ NoRow \notin [body : Responses, expires : Nat, used : Nat]

VARIABLES
    rows,     \* the table entries: for a key, what is known of its response
    files,    \* the directory bodies
    current,  \* PRAGMA user_version is NS_CACHE_SCHEMA_VERSION
    proc,     \* for a process: "down", "starting", "open", "failed", "closed"
    job,      \* for a process: what its holder of g_cache_mutex is doing
    clock,    \* g_get_real_time: it can be set to anything
    surprises \* processes killed, calls that failed, changes of the clock

(* Histories of what the code does not undo: what a process that ended, a   *)
(* call that failed or two processes at one key left behind.                *)
VARIABLES
    torn,     \* keys whose row and file may be of two responses
    leaked,   \* keys whose file may have lost its row
    crossed,  \* processes whose lookup met a store of its key
    lapsed    \* the last eviction was cut short

disk == <<rows, files, current>>
histories == <<torn, leaked, crossed, lapsed>>
cacheVars == <<disk, proc, job, clock, surprises, histories>>

Idle == [at |-> "idle"]
Aging == [at |-> "age"]
Capping == [at |-> "cap"]
Upgrading == [at |-> "upgrade"]
Version == [at |-> "version"]

Stored == {k \in Keys : rows[k] # NoRow}
OnDisk == {k \in Keys : files[k] # NoBody}
Expiry(l) == IF l = 0 THEN 0 ELSE clock + l

(* delete_key for every member of S, then what comes next.                 *)
Deleting(S, then) ==
    IF S = {} THEN then ELSE [at |-> "unlink", todo |-> S, next |-> then]

Become(p, j) == job' = [job EXCEPT ![p] = j]
Keep == UNCHANGED <<current, proc, clock>>

(* A call goes well, or fails.                                             *)
Goes == UNCHANGED surprises
Surprise == surprises < MaxSurprises /\ surprises' = surprises + 1

Rows == [body : Responses, expires : Nat, used : Nat]

(* What each kind of job carries.                                          *)
JobTyped(j) ==
    /\ j.at = "file" => j.key \in Keys /\ j.body \in Responses
    /\ j.at = "unlink" => j.todo \subseteq Keys /\ j.next \in {Idle, Capping}
    /\ j.at = "drop" =>
          /\ j.key \in Keys
          /\ \E S \in SUBSET Keys, n \in {Idle, Capping} : j.next = Deleting(S, n)
    /\ j.at \in {"read", "touch", "promote"} => j.key \in Keys
    /\ j.at = "read" => j.head \in Responses
    /\ j.at = "promote" => j.expires \in Nat
    /\ j.at = "rmrf" =>
          /\ j = [at |-> "rmrf", todo |-> j.todo, next |-> j.next]
          /\ j.todo \subseteq Keys
          /\ j.next \in {Idle, Version}

DiskTypes ==
    /\ rows \in [Keys -> Rows \cup {NoRow}]
    /\ files \in [Keys -> Responses \cup {NoBody}]
    /\ current \in BOOLEAN

ProcessTypes ==
    /\ proc \in [Processes -> {"down", "starting", "open", "failed", "closed"}]
    /\ job = [p \in Processes |-> job[p]]
    /\ \A p \in Processes : JobTyped(job[p])
    /\ \A p \in Processes : proc[p] = "down" => job[p] = Idle

HistoryTypes ==
    /\ clock \in Nat /\ surprises \in Nat
    /\ torn \subseteq Keys /\ leaked \subseteq Keys
    /\ crossed \subseteq Processes /\ lapsed \in BOOLEAN

CacheTypeOK == DiskTypes /\ ProcessTypes /\ HistoryTypes

CacheInit ==
    /\ rows = [k \in Keys |-> NoRow]
    /\ files \in [Keys -> Responses \cup {NoBody}]
    /\ current = FALSE
    /\ proc = [p \in Processes |-> "down"]
    /\ job = [p \in Processes |-> Idle]
    /\ clock = 0
    /\ surprises = 0
    /\ torn = {} /\ leaked = {} /\ crossed = {} /\ lapsed = FALSE

Free(p) == proc[p] = "open" /\ job[p] = Idle
Open(p) == proc[p] \in {"starting", "open"}

(* Who is at a key: between the two writes of a store, about to delete it,  *)
(* between the two removals, or in a lookup.                                *)
Storing(k) == {p \in Processes : job[p].at = "file" /\ job[p].key = k}
Changing(k) ==
    Storing(k) \cup {p \in Processes : job[p].at = "unlink" /\ k \in job[p].todo}
Dropping(k) == {p \in Processes : job[p].at = "drop" /\ job[p].key = k}
Looking(k) ==
    {p \in Processes : job[p].at \in {"read", "touch"} /\ job[p].key = k}

(* A row that goes while its file is being written leaves the file alone.   *)
Stranded(S) == {k \in S : Storing(k) # {}}

-----------------------------------------------------------------------------
(* Mutant: the version is set before the old files are removed.            *)
StartMarksFirst(p) ==
    /\ proc[p] = "down"
    /\ proc' = [proc EXCEPT ![p] = "starting"]
    /\ current' = TRUE
    /\ \/ current /\ Become(p, Aging) /\ Goes
       \/ ~current /\ Become(p, Upgrading) /\ Goes
       \/ Become(p, Upgrading) /\ Surprise
    /\ UNCHANGED <<rows, files, clock, histories>>

(* ns_cache_init, cache_schema: a cache of another version, or of one that  *)
(* cannot be read, is emptied.                                             *)
CacheStart(p) ==
    /\ proc[p] = "down"
    /\ proc' = [proc EXCEPT ![p] = "starting"]
    /\ \/ current /\ Become(p, Aging) /\ Goes
       \/ ~current /\ Become(p, Upgrading) /\ Goes
       \/ Become(p, Upgrading) /\ Surprise
    /\ UNCHANGED <<disk, clock, histories>>

(* It loses its rows, then its files, and only then becomes one of this     *)
(* version.                                                                *)
Upgrade(p) ==
    /\ job[p].at = "upgrade"
    /\ rows' = [k \in Keys |-> NoRow]
    /\ leaked' = leaked \cup Stranded(Keys)
    /\ Become(p, [at |-> "rmrf", todo |-> OnDisk, next |-> Version])
    /\ UNCHANGED <<files, torn, crossed, lapsed>>
    /\ Keep /\ Goes

SetVersion(p) ==
    /\ job[p].at = "version"
    /\ current' = TRUE
    /\ Become(p, Aging)
    /\ UNCHANGED <<rows, files, proc, clock, surprises, histories>>

Started(p) ==
    /\ proc[p] = "starting"
    /\ job[p] = Idle
    /\ proc' = [proc EXCEPT ![p] = "open"]
    /\ UNCHANGED <<disk, job, clock, surprises, histories>>

(* A statement of cache_schema fails, and the process has no cache.        *)
StartFails(p) ==
    /\ proc[p] = "down" \/ job[p].at \in {"upgrade", "version"}
    /\ proc' = [proc EXCEPT ![p] = "failed"]
    /\ Become(p, Idle)
    /\ Surprise
    /\ UNCHANGED <<disk, clock, histories>>

(* ns_cache_shutdown, with or without a thread inside.                     *)
Shutdown(p) ==
    /\ proc[p] = "open"
    /\ proc' = [proc EXCEPT ![p] = "closed"]
    /\ UNCHANGED <<disk, job, clock, surprises, histories>>

(* The process ends: after its shutdown, or killed at any moment.  A walk   *)
(* over the files is done again only by a start that finds the old version. *)
End(p) ==
    /\ \/ proc[p] \in {"failed", "closed"} /\ Goes
       \/ Open(p) /\ Surprise
    /\ proc' = [proc EXCEPT ![p] = "down"]
    /\ Become(p, Idle)
    /\ torn' = torn \cup {k \in Stored \cap OnDisk :
                             p \in Changing(k) /\ rows[k].body # files[k]}
    /\ leaked' = IF job[p].at = "rmrf" /\ (current \/ job[p].next = Idle)
                 THEN leaked \cup job[p].todo
                 ELSE leaked
    /\ crossed' = crossed \ {p}
    /\ lapsed' = (lapsed \/ job[p].at \in {"file", "age", "cap", "unlink", "drop"})
    /\ UNCHANGED <<disk, clock>>

(* The clock runs, or is set, forwards or back.                            *)
SetClock ==
    /\ clock' \in 0 .. MaxClock \ {clock}
    /\ Surprise
    /\ UNCHANGED <<disk, proc, job, histories>>

-----------------------------------------------------------------------------
(* ns_cache_put: the row first, then the file.  A store that is alone at    *)
(* its key makes good what was left there.                                 *)
PutRow(p) ==
    /\ Free(p)
    /\ \E q \in Requests : \E k \in q, r \in Responses, l \in Lifetimes :
          /\ rows' = [rows EXCEPT ![k] =
                         [body |-> r, expires |-> Expiry(l), used |-> clock]]
          /\ Become(p, [at |-> "file", key |-> k, body |-> r])
          /\ torn' = IF Storing(k) = {} THEN torn \ {k} ELSE torn \cup {k}
          /\ leaked' = IF Storing(k) \cup Dropping(k) = {}
                       THEN leaked \ {k} ELSE leaked
          /\ crossed' = crossed \cup Looking(k)
    /\ UNCHANGED <<files, lapsed>>
    /\ Keep /\ Goes

(* g_file_set_contents_full replaces the file as a whole.                  *)
PutFile(p) ==
    /\ job[p].at = "file"
    /\ LET k == job[p].key
       IN  /\ files' = [files EXCEPT ![k] = job[p].body]
           /\ leaked' = IF Dropping(k) = {} THEN leaked ELSE leaked \cup {k}
    /\ Become(p, Aging)
    /\ UNCHANGED <<rows, torn, crossed, lapsed>>
    /\ Keep /\ Goes

(* A shutdown has cleared g_cache_dir: the file is written somewhere else.  *)
PutAstray(p) ==
    /\ job[p].at = "file"
    /\ ~Open(p)
    /\ torn' = torn \cup {job[p].key}
    /\ Become(p, Aging)
    /\ UNCHANGED <<rows, files, leaked, crossed, lapsed>>
    /\ Keep /\ Goes

(* Mutant: the row stays when its file could not be written.               *)
PutFailsKeeps(p) ==
    /\ job[p].at = "file"
    /\ Become(p, Idle)
    /\ UNCHANGED <<rows, files, histories>>
    /\ Keep /\ Surprise

(* It fails and leaves the file that was there.                            *)
PutFails(p) ==
    /\ job[p].at = "file"
    /\ Become(p, Deleting({job[p].key}, Idle))
    /\ UNCHANGED <<rows, files, histories>>
    /\ Keep /\ Surprise

(* evict_to_cap returns at once when the database is closed.               *)
EvictNothing(p) ==
    /\ job[p].at \in {"age", "cap"}
    /\ ~Open(p)
    /\ Become(p, Idle)
    /\ lapsed' = TRUE
    /\ UNCHANGED <<rows, files, torn, leaked, crossed>>
    /\ Keep /\ Goes

(* What evict_by_select is given of the rows that match: all of them, or    *)
(* some or none when its statement fails.                                  *)
Given(S, Matching) ==
    \/ S = Matching /\ Goes
    \/ S # Matching /\ Surprise

(* evict_aged_out.                                                         *)
EvictAged(p) ==
    /\ job[p].at = "age"
    /\ Open(p)
    /\ LET Aged == {k \in Stored : rows[k].used < clock - MaxAge}
       IN  \E S \in SUBSET Aged :
              Given(S, Aged) /\ Become(p, Deleting(S, Capping))
    /\ UNCHANGED <<rows, files, histories>>
    /\ Keep

(* ORDER BY last_used DESC, key DESC.                                      *)
NotAfter(j, k) ==
    \/ rows[j].used > rows[k].used
    \/ rows[j].used = rows[k].used /\ j >= k

(* Mutant: the sum leaves the entry itself out.                            *)
RunningSumBefore(k) ==
    MapThenSumSet(LAMBDA j : rows[j].body,
                  {j \in Stored : NotAfter(j, k) /\ j # k})

RunningSum(k) ==
    MapThenSumSet(LAMBDA j : rows[j].body, {j \in Stored : NotAfter(j, k)})

(* evict_to_cap: what lies beyond the limit in that order.                 *)
EvictOver(p) ==
    /\ job[p].at = "cap"
    /\ Open(p)
    /\ LET Over == {k \in Stored : RunningSum(k) > Cap}
       IN  \E S \in SUBSET Over :
              /\ Given(S, Over)
              /\ Become(p, Deleting(S, Idle))
              /\ lapsed' = (S # Over)
    /\ UNCHANGED <<rows, files, torn, leaked, crossed>>
    /\ Keep

-----------------------------------------------------------------------------
(* delete_key: the file first, then the row.  Nobody looks at the result of *)
(* g_unlink, nor at that of the statement.                                 *)
Unlink(p) ==
    /\ job[p].at = "unlink"
    /\ \E k \in job[p].todo :
          /\ \/ /\ files' = [files EXCEPT ![k] = NoBody]
                /\ UNCHANGED <<torn, leaked>>
                /\ Goes
             \/ /\ k \in OnDisk
                /\ torn' = torn \cup {k}
                /\ leaked' = leaked \cup {k}
                /\ UNCHANGED files
                /\ (~Open(p) /\ Goes) \/ Surprise
          /\ Become(p, [at |-> "drop", key |-> k, next |->
                           Deleting(job[p].todo \ {k}, job[p].next)])
    /\ UNCHANGED <<rows, crossed, lapsed>>
    /\ Keep

DropRow(p) ==
    /\ job[p].at = "drop"
    /\ \/ /\ Open(p)
          /\ rows' = [rows EXCEPT ![job[p].key] = NoRow]
          /\ leaked' = leaked \cup Stranded({job[p].key})
          /\ Goes
       \/ UNCHANGED <<rows, leaked>> /\ ((~Open(p) /\ Goes) \/ Surprise)
    /\ Become(p, job[p].next)
    /\ UNCHANGED <<files, torn, crossed, lapsed>>
    /\ Keep

-----------------------------------------------------------------------------
(* ns_cache_get: find_row_key takes the first row that matches the request, *)
(* in no order the statement asks for.                                     *)
GetRow(p) ==
    /\ Free(p)
    /\ \E q \in Requests : \E k \in q \cap Stored :
          /\ Become(p, [at |-> "read", key |-> k, head |-> rows[k].body,
                        expires |-> rows[k].expires, request |-> q])
          /\ crossed' = IF Changing(k) = {} THEN crossed ELSE crossed \cup {p}
    /\ UNCHANGED <<rows, files, torn, leaked, lapsed>>
    /\ Keep /\ Goes

(* The body, or the end of an entry whose file is missing or unreadable.    *)
GetFile(p) ==
    /\ job[p].at = "read"
    /\ LET k == job[p].key
       IN  \/ /\ k \in OnDisk
              /\ Become(p, [at |-> "touch", key |-> k, head |-> job[p].head,
                            expires |-> job[p].expires, request |-> job[p].request,
                            body |-> files[k]])
              /\ UNCHANGED crossed
              /\ Goes
           \/ /\ Become(p, Deleting({k}, Idle))
              /\ crossed' = crossed \ {p}
              /\ IF k \in OnDisk THEN Surprise ELSE Goes
    /\ UNCHANGED <<rows, files, torn, leaked, lapsed>>
    /\ Keep

(* An update of the row of k, which may be gone or fail.                    *)
Update(p, k, row) ==
    \/ k \in Stored /\ Open(p) /\ rows' = [rows EXCEPT ![k] = row] /\ Goes
    \/ ~(k \in Stored /\ Open(p)) /\ UNCHANGED rows /\ Goes
    \/ UNCHANGED rows /\ Surprise

(* touch_key, and the entry is returned.                                   *)
Touch(p) ==
    /\ job[p].at = "touch"
    /\ LET k == job[p].key IN Update(p, k, [rows[k] EXCEPT !.used = clock])
    /\ Become(p, Idle)
    /\ crossed' = crossed \ {p}
    /\ UNCHANGED <<files, torn, leaked, lapsed>>
    /\ Keep

(* ns_cache_promote_304.                                                   *)
Promote(p) ==
    /\ Free(p)
    /\ \E q \in Requests : \E k \in q \cap Stored, l \in Lifetimes :
          /\ Expiry(l) > rows[k].expires
          /\ Become(p, [at |-> "promote", key |-> k, expires |-> Expiry(l)])
    /\ UNCHANGED <<rows, files, histories>>
    /\ Keep /\ Goes

Promoted(p) ==
    /\ job[p].at = "promote"
    /\ LET k == job[p].key
       IN  Update(p, k, [rows[k] EXCEPT !.expires = job[p].expires, !.used = clock])
    /\ Become(p, Idle)
    /\ UNCHANGED <<files, histories>>
    /\ Keep

-----------------------------------------------------------------------------
(* ns_cache_clear: the rows first, unless there is no database or the       *)
(* statement fails, then the files cache_rmrf finds.                       *)
Clear(p) ==
    /\ proc[p] \in {"open", "failed"}
    /\ job[p] = Idle
    /\ \/ /\ proc[p] = "open"
          /\ rows' = [k \in Keys |-> NoRow]
          /\ leaked' = leaked \cup Stranded(Keys)
          /\ Goes
       \/ UNCHANGED <<rows, leaked>> /\ IF proc[p] = "failed" THEN Goes ELSE Surprise
    /\ Become(p, [at |-> "rmrf", todo |-> OnDisk, next |-> Idle])
    /\ UNCHANGED <<files, torn, crossed, lapsed>>
    /\ Keep

(* The walk meets every file that was there and perhaps later ones.        *)
Remove(p) ==
    /\ job[p].at = "rmrf"
    /\ \/ \E k \in job[p].todo \cup OnDisk :
             /\ files' = [files EXCEPT ![k] = NoBody]
             /\ job' = [job EXCEPT ![p].todo = @ \ {k}]
             /\ UNCHANGED leaked
             /\ Goes
       \/ \E k \in job[p].todo \cap OnDisk :
             /\ leaked' = leaked \cup {k}
             /\ job' = [job EXCEPT ![p].todo = @ \ {k}]
             /\ UNCHANGED files
             /\ Surprise
    /\ UNCHANGED <<rows, torn, crossed, lapsed>>
    /\ Keep

Removed(p) ==
    /\ job[p].at = "rmrf"
    /\ job[p].todo = {}
    /\ Become(p, job[p].next)
    /\ UNCHANGED <<rows, files, histories>>
    /\ Keep /\ Goes

-----------------------------------------------------------------------------
Put(p) == PutRow(p) \/ PutFile(p) \/ PutAstray(p) \/ PutFails(p)
Evict(p) == EvictNothing(p) \/ EvictAged(p) \/ EvictOver(p)
Delete(p) == Unlink(p) \/ DropRow(p)
Get(p) == GetRow(p) \/ GetFile(p) \/ Touch(p)
Promotion(p) == Promote(p) \/ Promoted(p)
Clearing(p) == Clear(p) \/ Remove(p) \/ Removed(p)
Life(p) ==
    \/ CacheStart(p) \/ Upgrade(p) \/ SetVersion(p) \/ Started(p)
    \/ StartFails(p) \/ Shutdown(p) \/ End(p)

CacheNext ==
    \/ SetClock
    \/ \E p \in Processes :
          Put(p) \/ Evict(p) \/ Delete(p) \/ Get(p) \/ Promotion(p)
            \/ Clearing(p) \/ Life(p)

CacheSpec == CacheInit /\ [][CacheNext]_cacheVars

-----------------------------------------------------------------------------
(* What ns_cache_get hands out is one response: the headers of the row and  *)
(* the body of the file were stored by the same call of ns_cache_put, or of *)
(* one with the same body.  The code puts them in two places and never      *)
(* compares them, and g_cache_mutex keeps the threads of one process apart. *)
(* With several processes it holds but for the lookups that meet a store or *)
(* a deletion of their key under way, and for the keys that two stores at   *)
(* once, an end between two writes or a file that could not be removed have *)
(* torn, until a store alone at the key makes them good.                    *)
EntryIsOneResponse ==
    \A p \in Processes :
        job[p].at = "touch" =>
            \/ job[p].head = job[p].body
            \/ job[p].key \in torn
            \/ p \in crossed

(* A file without a row is never found by an eviction, so it would stay     *)
(* for good: ns_cache_put writes the row first, delete_key removes it last, *)
(* and an upgrade sets the version last.  Such files come from nothing but  *)
(* a row deleted while another process stores its key, a file that could    *)
(* not be removed, and an end in a walk over the files that no later start  *)
(* does again.                                                             *)
EveryFileHasRow ==
    current =>
        \A k \in OnDisk :
            \/ k \in Stored \cup leaked
            \/ \E p \in Processes : job[p].at = "rmrf" /\ k \in job[p].todo

(* When no process is in the middle of anything the files, not just the     *)
(* sizes in the rows, are within the limit of the configuration, in         *)
(* whatever order stores, lookups and evictions of several processes were   *)
(* mixed: unless the last eviction was cut short, or a file on the disk is  *)
(* torn or leaked.                                                         *)
WithinBudget ==
    /\ current
    /\ \A p \in Processes : job[p] = Idle
    /\ ~lapsed
    /\ OnDisk \cap (torn \cup leaked) = {}
    => MapThenSumSet(LAMBDA k : files[k], OnDisk) <= Cap

(* docs/preloading.md:69: the cache answers when a fresh entry exists on    *)
(* disk for this partition and this Vary variant.                          *)
FreshEntryAnswers ==
    \A p \in Processes :
        job[p].at = "touch" =>
            \/ job[p].expires > clock
            \/ ~\E k \in job[p].request \cap Stored \cap OnDisk :
                   rows[k].expires > clock

=============================================================================
