------------------------------- MODULE CapCache -------------------------------
(***************************************************************************)
(* The capture cache: when the body of a proxied response passes by, a     *)
(* file with a fixed page is put into the proxy's cache directory under    *)
(* the key of the request, already expired.  The file is written as a      *)
(* temporary one and renamed.                                              *)
(*                                                                         *)
(* The requests here have one key and are served by worker processes of    *)
(* their own, so that one may run between any two system calls of another. *)
(* A body filter is called for every chain of a response's body, as often  *)
(* as the upstream likes, and tries again until the response is marked.    *)
(***************************************************************************)
EXTENDS Integers

CONSTANTS
    Request,        \* requests for the page
    MaxTemp         \* bound: the temporary files a request makes

ASSUME CapCacheAssumption == MaxTemp \in Nat

VARIABLES
    at,             \* at[r]: where r is in the filters; see Place
    is_cached,      \* is_cached[r]: ctx->is_cached
    entry,          \* entry[r]: r->cache, "none", "unkeyed" or "ready"
    name,           \* name[r]: c->file.name, "none", "null" (its data) or "set"
    file,           \* the files under the key: at most one
    temp,           \* the temporary files
    made,           \* made[r]: how many of them r has made
    published,      \* history: published[r]: how often r's file got the name
    unregistered,   \* history: unregistered[r]: how often no cleanup was added
    unnamed,        \* history: the requests a rename failed for
    abandoned       \* history: the temporary files nobody will touch again

history == <<published, unregistered, unnamed, abandoned>>
disk == <<file, temp, made>>
captureVars == <<at, is_cached, entry, name, disk, history>>

\* "headers": before the header filter; "idle": between two calls of the body
\* filter; "entry" .. "mark": in one; "plain": no ctx; "gone": finalized.
Place == {"headers", "idle", "entry", "key", "buffer", "create", "write",
          "rename", "mark", "plain", "gone"}

\* n: the number of its owner's temporary file it was
File == [owner : Request, n : 1..MaxTemp, whole : BOOLEAN]

CaptureTypeOK ==
    /\ at \in [Request -> Place]
    /\ is_cached \in [Request -> BOOLEAN]
    /\ entry \in [Request -> {"none", "unkeyed", "ready"}]
    /\ name \in [Request -> {"none", "null", "set"}]
    /\ file \subseteq File
    /\ \A f, g \in file : f = g
    /\ temp \subseteq File /\ abandoned \subseteq File
    /\ made \in [Request -> 0..MaxTemp]
    /\ published \in [Request -> Nat] /\ unregistered \in [Request -> Nat]
    /\ unnamed \subseteq Request

CaptureInit ==
    /\ at = [r \in Request |-> "headers"]
    /\ is_cached = [r \in Request |-> FALSE]
    /\ entry \in [Request -> {"none", "ready"}]     \* "ready": proxy_cache is on
    /\ name = [r \in Request |-> IF entry[r] = "ready" THEN "set" ELSE "none"]
    /\ file = {} /\ temp = {}
    /\ made = [r \in Request |-> 0]
    /\ published = [r \in Request |-> 0]
    /\ unregistered = [r \in Request |-> 0]
    /\ unnamed = {} /\ abandoned = {}

------------------------------------------------------------------------------
Go(r, from, to) == at[r] = from /\ at' = [at EXCEPT ![r] = to]

\* The temporary file r is working on.
Mine(r) == {t \in temp : t.owner = r /\ t.n = made[r]}

\* ngx_capcache_header_filter: the context is for a 200 or a 304 where the
\* capture is enabled.
HeaderFilter(r) ==
    /\ Go(r, "headers", "idle") \/ Go(r, "headers", "plain")
    /\ UNCHANGED <<is_cached, entry, name, disk, history>>

\* Mutant: is_cached is not asked.
Enter_Again(r) ==
    /\ Go(r, "idle", IF entry[r] = "none" THEN "entry" ELSE "buffer")
    /\ made[r] < MaxTemp
    /\ UNCHANGED <<is_cached, entry, name, disk, history>>

\* The body filter is called with a chain.
Enter(r) ==
    /\ Go(r, "idle", IF entry[r] = "none" THEN "entry" ELSE "buffer")
    /\ ~is_cached[r] /\ made[r] < MaxTemp
    /\ UNCHANGED <<is_cached, entry, name, disk, history>>

\* ngx_http_file_cache_new, and the key of the proxy: each may fail, and the
\* second leaves r->cache behind as the first has made it.
NewEntry(r) ==
    /\ \/ Go(r, "entry", "key") /\ entry' = [entry EXCEPT ![r] = "unkeyed"]
       \/ Go(r, "entry", "idle") /\ UNCHANGED entry
    /\ UNCHANGED <<is_cached, name, disk, history>>

CreateKey(r) ==
    /\ \/ Go(r, "key", "buffer") /\ entry' = [entry EXCEPT ![r] = "ready"]
       \/ Go(r, "key", "idle") /\ UNCHANGED entry
    /\ UNCHANGED <<is_cached, name, disk, history>>

\* Mutant: a response there is no memory for is marked as well.
FillBuffer_GivesUp(r) ==
    /\ Go(r, "buffer", "create") \/ Go(r, "buffer", "mark")
    /\ UNCHANGED <<is_cached, entry, name, disk, history>>

\* The file's header and page are put together in memory, or there is none.
\* The buffer of an entry without a key has no room for the header: whatever
\* becomes of the worker, it does not get past c->file_cache->path.
FillBuffer(r) ==
    /\ \/ Go(r, "buffer", "create")
       \/ Go(r, "buffer", "idle")
       \/ entry[r] = "unkeyed" /\ Go(r, "buffer", "gone")
    /\ UNCHANGED <<is_cached, entry, name, disk, history>>

\* ngx_write_chain_to_temp_file opens the file ...
CreateTemp(r) ==
    /\ \/ /\ Go(r, "create", "write")
          /\ made' = [made EXCEPT ![r] = @ + 1]
          /\ temp' = temp \cup {[owner |-> r, n |-> made'[r], whole |-> FALSE]}
       \/ Go(r, "create", "idle") /\ UNCHANGED <<made, temp>>
    /\ UNCHANGED <<is_cached, entry, name, file, history>>

\* Mutant: NGX_AGAIN, or a short write, is taken for success.
WriteTemp_Short(r) ==
    /\ Go(r, "write", "rename")
    /\ UNCHANGED <<is_cached, entry, name, disk, history>>

\* ... and writes it.  It is persistent, so that a failed write leaves it.
WriteTemp(r) ==
    /\ \/ /\ Go(r, "write", "rename")
          /\ temp' = (temp \ Mine(r)) \cup {[t EXCEPT !.whole = TRUE] : t \in Mine(r)}
          /\ UNCHANGED abandoned
       \/ /\ Go(r, "write", "idle")
          /\ abandoned' = abandoned \cup Mine(r)
          /\ UNCHANGED temp
    /\ UNCHANGED <<is_cached, entry, name, file, made, published, unregistered, unnamed>>

\* ngx_http_file_cache_name_my: nobody asks whether its ngx_pnalloc failed, and
\* a later call finds the length of the name set.
Named(r) == IF name[r] = "none" THEN {"set", "null"} ELSE {name[r]}

\* Mutant: delete_file is not set.
Rename_KeepsTemp(r) ==
    /\ Go(r, "rename", "mark") /\ entry[r] = "ready"
    /\ \E n \in Named(r) :
        /\ name' = [name EXCEPT ![r] = n]
        /\ \/ /\ n = "set"
              /\ file' = Mine(r)
              /\ temp' = temp \ Mine(r)
              /\ published' = [published EXCEPT ![r] = @ + 1]
              /\ UNCHANGED unnamed
           \/ /\ unnamed' = unnamed \cup {r}
              /\ UNCHANGED <<file, temp, published>>
    /\ UNCHANGED <<is_cached, entry, made, unregistered, abandoned>>

\* ngx_ext_rename_file: the temporary file becomes the file of the key, in one
\* step, or it is deleted.  Its result is not looked at.
Rename(r) ==
    /\ Go(r, "rename", "mark") /\ entry[r] = "ready"
    /\ \E n \in Named(r) :
        /\ name' = [name EXCEPT ![r] = n]
        /\ temp' = temp \ Mine(r)
        /\ \/ /\ n = "set"
              /\ file' = Mine(r)
              /\ published' = [published EXCEPT ![r] = @ + 1]
              /\ UNCHANGED unnamed
           \/ /\ unnamed' = unnamed \cup {r}
              /\ UNCHANGED <<file, published>>
    /\ UNCHANGED <<is_cached, entry, made, unregistered, abandoned>>

\* c->file_cache->path of an entry without a key
RenameUnkeyed(r) ==
    /\ Go(r, "rename", "gone") /\ entry[r] = "unkeyed"
    /\ abandoned' = abandoned \cup Mine(r)
    /\ UNCHANGED <<is_cached, entry, name, disk, published, unregistered, unnamed>>

\* ngx_pool_cleanup_add; only if it fails will the next chain try again.
Mark(r) ==
    /\ Go(r, "mark", "idle")
    /\ \/ is_cached' = [is_cached EXCEPT ![r] = TRUE] /\ UNCHANGED unregistered
       \/ /\ unregistered' = [unregistered EXCEPT ![r] = @ + 1]
          /\ UNCHANGED is_cached
    /\ UNCHANGED <<entry, name, disk, published, unnamed, abandoned>>

\* The request ends between two calls; or its worker is killed in one.
Finish(r) ==
    /\ Go(r, "idle", "gone") \/ Go(r, "plain", "gone")
    /\ UNCHANGED <<is_cached, entry, name, disk, history>>

Kill(r) ==
    /\ at[r] \notin {"gone", "plain", "idle"} /\ Go(r, at[r], "gone")
    /\ abandoned' = abandoned \cup (IF at[r] \in {"write", "rename"} THEN Mine(r) ELSE {})
    /\ UNCHANGED <<is_cached, entry, name, disk, published, unregistered, unnamed>>

\* The cache manager removes an expired file.
Purge ==
    /\ file # {}
    /\ file' = {}
    /\ UNCHANGED <<at, is_cached, entry, name, temp, made, history>>

CaptureNext ==
    \/ \E r \in Request :
        \/ HeaderFilter(r) \/ Enter(r) \/ NewEntry(r) \/ CreateKey(r)
        \/ FillBuffer(r) \/ CreateTemp(r) \/ WriteTemp(r) \/ Rename(r)
        \/ RenameUnkeyed(r) \/ Mark(r) \/ Finish(r) \/ Kill(r)
    \/ Purge

CaptureSpec == CaptureInit /\ [][CaptureNext]_captureVars

------------------------------------------------------------------------------
(* Properties                                                              *)

\* Whoever opens the file of the key, at whatever moment, finds all of it,
\* written with the key of a request.
FileWhole == \A f \in file : f.whole /\ entry[f.owner] = "ready"

\* No temporary file is forgotten on another path: it is being worked on by the
\* request that made it, or its write failed, or the worker went down with it.
\* Those two leave it behind for good.
TempsAccounted ==
    \A t \in temp :
        \/ t.n = made[t.owner] /\ at[t.owner] \in {"write", "rename"}
        \/ t \in abandoned

\* However many chains a response has, its page is put into the cache once,
\* and again only when the cleanup of the time before could not be registered.
PublishedOnce == \A r \in Request : published[r] <= 1 + unregistered[r]

\* Of all that can fail in front of the mark only the rename lets a response be
\* marked that was not put into the cache.
MarkedIsPublished ==
    \A r \in Request : is_cached[r] => published[r] > 0 \/ r \in unnamed

==============================================================================
