------------------------------ MODULE Requests ------------------------------
(***************************************************************************)
(* Effect.request: fromRequest of src/internal/query.ts, the operation     *)
(* Blocked and invokeWithInterrupt of src/internal/fiberRuntime.ts, and    *)
(* complete of src/internal/request.ts.                                    *)
(*                                                                         *)
(* A client asks for some keys in one batch.  For a key there is a handle, *)
(* that the clients share if requests are cached; it counts who listens.   *)
(* A client that found no handle has an entry for the one it made in a     *)
(* block of requests.  The block is run by a child of the client that      *)
(* cannot be interrupted; the data source runs in a daemon of its own, and *)
(* is interrupted when nobody listens to any of the entries.               *)
(***************************************************************************)
EXTENDS Naturals, Sequences, FiniteSets, SequencesExt

CONSTANTS
  Client, Key,
  Asks,           \* Asks[c]: the keys that c asks for
  MaxHandles,     \* how many handles are made, in all
  MaxEvents,      \* how often a client is interrupted or the cache is changed, in all
  Yields,         \* whether a fiber may yield between any two operations
  Dies            \* whether the data source may die, or leave a request open

RequestsAssumption ==
  /\ Asks \in [Client -> SUBSET Key] /\ MaxHandles \in Nat /\ MaxEvents \in Nat
  /\ {Yields, Dies} \subseteq BOOLEAN

VARIABLES
  caching,        \* requests are cached
  cache,          \* of each key: its handle, or 0
  handles,        \* each is <<key, exit, listeners>>, its exit "open", "value" or "interrupt"
  pc,             \* of what a client does about a key: "none", "idle", "blocked", "unstarted",
                  \* "waiting" or "ended"
  handle, owned,  \* ... the handle it has, and whether it made it
  answer,         \* ... and how it ended
  blocks,         \* each is <<entries, the state of the child, that of the data source>>
  told, events,   \* the clients that were interrupted; how much may still happen
  lost            \* history: the handles that nobody will complete

clients == <<pc, handle, owned, answer>>
vars    == <<caching, cache, handles, clients, blocks, told, events, lost>>

Handle(k, e, n)  == [key |-> k, exit |-> e, listeners |-> n]
Open(h)          == handles[h].exit = "open"
Spend            == events > 0 /\ events' = events - 1
Goes(c, k, to)   == pc' = [pc EXCEPT ![c][k] = to]

\* Mutant of increment: only who made the handle listens.
incrementNot(hs, h) == hs

increment(hs, h) == [hs EXCEPT ![h].listeners = @ + 1]
decrement(hs, h) == [hs EXCEPT ![h].listeners = @ - 1]

Entries(b) == {b.entries[i] : i \in DOMAIN b.entries}

\* checkDone, which an observer of the listeners runs: with the handles hs, the
\* data source of a block to which nobody listens is interrupted.
checkDone(bs, hs) ==
  [i \in DOMAIN bs |->
     IF bs[i].child = "attached" /\ \A h \in Entries(bs[i]) : hs[h].listeners = 0
     THEN [bs[i] EXCEPT !.child = "stopping"] ELSE bs[i]]
----------------------------------------------------------------------------
(* A client.                                                               *)

\* getEither: the handle in the cache, or a new one that only who made it has
\* to complete.  A retry of a key makes a new one, too.
Ask(c, k) ==
  /\ pc[c][k] = "idle" /\ c \notin told
  /\ \/ /\ caching /\ cache[k] # 0 /\ UNCHANGED cache
        /\ handles' = increment(handles, cache[k]) /\ blocks' = checkDone(blocks, handles')
        /\ handle' = [handle EXCEPT ![c][k] = cache[k]] /\ owned' = [owned EXCEPT ![c][k] = FALSE]
     \/ /\ ~caching \/ cache[k] = 0
        /\ Len(handles) < MaxHandles
        /\ handles' = Append(handles, Handle(k, "open", 1)) /\ UNCHANGED blocks
        /\ handle' = [handle EXCEPT ![c][k] = Len(handles')] /\ owned' = [owned EXCEPT ![c][k] = TRUE]
        /\ cache' = IF caching THEN [cache EXCEPT ![k] = Len(handles')] ELSE cache
  /\ Goes(c, k, "blocked") /\ UNCHANGED <<caching, answer, told, events, lost>>

\* When all its requests are blocked or done the client forks the block of those
\* that it made, and goes on with what awaits them.
Block(c) ==
  LET Blocked == {k \in Key : pc[c][k] = "blocked"}
      entries == SetToSeq({handle[c][k] : k \in {l \in Blocked : owned[c][l]}}) IN
  /\ c \notin told /\ Blocked # {} /\ \A k \in Key : pc[c][k] \in {"none", "blocked", "ended"}
  /\ pc' = [pc EXCEPT ![c] = [k \in Key |-> IF k \in Blocked THEN "unstarted" ELSE @[k]]]
  /\ blocks' = IF entries = <<>> THEN blocks
               ELSE Append(blocks, [entries |-> entries, child |-> "forked", source |-> "none", by |-> c])
  /\ UNCHANGED <<caching, cache, handles, handle, owned, answer, told, events, lost>>

Await(c, k) ==
  /\ pc[c][k] = "unstarted" /\ c \notin told /\ Goes(c, k, "waiting")
  /\ UNCHANGED <<caching, cache, handles, handle, owned, answer, blocks, told, events, lost>>

\* The handle was completed.
Answered(c, k) ==
  LET h == handle[c][k] IN
  /\ pc[c][k] = "waiting" /\ ~Open(h) /\ c \notin told
  /\ handles' = decrement(handles, h) /\ blocks' = checkDone(blocks, handles')
  /\ \/ /\ handles[h].exit = "value" \/ owned[c][k]
        /\ Goes(c, k, "ended") /\ answer' = [answer EXCEPT ![c][k] = handles[h].exit]
        /\ UNCHANGED <<cache, handle>>
     \/ \* Who found the handle in the cache asks once more if it was interrupted.
        /\ handles[h].exit = "interrupt" /\ ~owned[c][k]
        /\ cache' = IF cache[handles[h].key] = h THEN [cache EXCEPT ![handles[h].key] = 0] ELSE cache
        /\ Goes(c, k, "idle") /\ handle' = [handle EXCEPT ![c][k] = 0] /\ UNCHANGED answer
  /\ UNCHANGED <<caching, owned, told, events, lost>>

\* An interruption: who made the handle and waits for it stops listening; who
\* found it does not, nor who does not wait yet.  What it has not given to a
\* block nobody completes.
Leave(c, k) ==
  LET h == handle[c][k] IN
  /\ c \in told /\ pc[c][k] \in {"idle", "blocked", "unstarted", "waiting"}
  /\ Goes(c, k, "ended") /\ answer' = [answer EXCEPT ![c][k] = "interrupt"]
  /\ handles' = IF pc[c][k] = "waiting" /\ owned[c][k] THEN decrement(handles, h) ELSE handles
  /\ blocks' = checkDone(blocks, handles')
  /\ lost' = IF pc[c][k] = "blocked" /\ owned[c][k] THEN lost \cup {h} ELSE lost
  /\ UNCHANGED <<caching, cache, handle, owned, told, events>>

\* If no fiber yields a single request is not interrupted before its block is run.
Interrupt(c) ==
  /\ Spend /\ c \notin told /\ \E k \in Key : pc[c][k] \notin {"none", "ended"}
  /\ Yields \/ Cardinality(Asks[c]) > 1 \/ \A k \in Key : pc[c][k] # "blocked"
  /\ told' = told \cup {c}
  /\ UNCHANGED <<caching, cache, handles, clients, blocks, lost>>
----------------------------------------------------------------------------
(* The child that runs a block, and the daemon of the data source.         *)

BlockUnchanged == UNCHANGED <<caching, cache, clients, told, events>>

Fork(i) ==
  /\ blocks[i].child = "forked"
  /\ blocks' = [blocks EXCEPT ![i].child = "forking", ![i].source = "running"]
  /\ BlockUnchanged /\ UNCHANGED <<handles, lost>>

OpenOf(i) == {h \in Entries(blocks[i]) : Open(h)}

\* asyncInterrupt: it observes the data source and who listens.  A data source
\* that has ended by then is observed before the observers can be removed, and
\* the child fails.
Attach(i) ==
  /\ blocks[i].child = "forking" /\ BlockUnchanged /\ UNCHANGED handles
  /\ \/ blocks[i].source # "running" /\ blocks' = [blocks EXCEPT ![i].child = "failed"]
        /\ lost' = lost \cup OpenOf(i)
     \/ blocks[i].source = "running" /\ UNCHANGED lost
        /\ blocks' = checkDone([blocks EXCEPT ![i].child = "attached"], handles)

\* Request.complete, by the data source: each entry once.
Complete(i, h) ==
  /\ blocks[i].source = "running" /\ (blocks[i].child # "forking" \/ Yields)
  /\ h \in Entries(blocks[i]) /\ Open(h) /\ handles' = [handles EXCEPT ![h].exit = "value"]
  /\ BlockUnchanged /\ UNCHANGED <<blocks, lost>>

Ends(i, how) ==
  /\ blocks[i].source = "running" /\ blocks' = [blocks EXCEPT ![i].source = how]
  /\ BlockUnchanged /\ UNCHANGED <<handles, lost>>

SourceEnds(i) ==
  /\ blocks[i].child # "forking" \/ Yields
  /\ \/ OpenOf(i) = {} /\ Ends(i, "ended")
     \/ OpenOf(i) # {} /\ Dies /\ Ends(i, "left")
     \/ Dies /\ Ends(i, "died")

SourceStops(i) == blocks[i].child = "stopping" /\ Ends(i, "stopped")

\* Mutant of Finish: what is still open is left open.
FinishOpen(i) ==
  /\ \/ blocks[i].child = "attached" /\ blocks[i].source \in {"ended", "left"}
     \/ blocks[i].child = "stopping" /\ blocks[i].source # "running"
  /\ blocks' = [blocks EXCEPT ![i].child = "ended"]
  /\ BlockUnchanged /\ UNCHANGED <<handles, lost>>

\* The data source has ended, or was interrupted: what is still open is completed
\* with an interruption.
Finish(i) ==
  /\ \/ blocks[i].child = "attached" /\ blocks[i].source \in {"ended", "left"}
     \/ blocks[i].child = "stopping" /\ blocks[i].source # "running"
  /\ blocks' = [blocks EXCEPT ![i].child = "ended"]
  /\ handles' = [h \in DOMAIN handles |->
                   IF h \in OpenOf(i) THEN [handles[h] EXCEPT !.exit = "interrupt"] ELSE handles[h]]
  /\ BlockUnchanged /\ UNCHANGED lost

\* The data source has died, and so does the child.
Fail(i) ==
  /\ blocks[i].child = "attached" /\ blocks[i].source = "died"
  /\ blocks' = [blocks EXCEPT ![i].child = "failed"] /\ lost' = lost \cup OpenOf(i)
  /\ BlockUnchanged /\ UNCHANGED handles
----------------------------------------------------------------------------
(* The cache.                                                              *)

Expire(k) ==
  /\ cache[k] # 0 /\ cache' = [cache EXCEPT ![k] = 0] /\ Spend
  /\ UNCHANGED <<caching, handles, clients, blocks, told, lost>>

cacheRequest(k) ==
  /\ caching /\ cache[k] = 0 /\ Len(handles) < MaxHandles /\ Spend
  /\ handles' = Append(handles, Handle(k, "value", 0))
  /\ cache' = [cache EXCEPT ![k] = Len(handles')]
  /\ UNCHANGED <<caching, clients, blocks, told, lost>>
----------------------------------------------------------------------------
Each(v) == [c \in Client |-> [k \in Key |-> v]]

Init ==
  /\ caching \in BOOLEAN /\ cache = [k \in Key |-> 0] /\ handles = <<>> /\ blocks = <<>>
  /\ pc = [c \in Client |-> [k \in Key |-> IF k \in Asks[c] THEN "idle" ELSE "none"]]
  /\ handle = Each(0) /\ owned = Each(FALSE) /\ answer = Each("none")
  /\ told = {} /\ events = MaxEvents /\ lost = {}

Client1(c) == Block(c) \/ \E k \in Key : Ask(c, k) \/ Await(c, k) \/ Answered(c, k) \/ Leave(c, k)
Child(i)   == Fork(i) \/ Attach(i) \/ Finish(i) \/ Fail(i)
Source(i)  == SourceEnds(i) \/ SourceStops(i) \/ \E h \in DOMAIN handles : Complete(i, h)

Next ==
  \/ \E c \in Client : Client1(c) \/ Interrupt(c)
  \/ \E i \in DOMAIN blocks : Child(i) \/ Source(i)
  \/ \E k \in Key : Expire(k) \/ cacheRequest(k)

Spec == Init /\ [][Next]_vars
----------------------------------------------------------------------------
TypeOK ==
  /\ cache \in [Key -> 0..Len(handles)] /\ told \subseteq Client /\ lost \subseteq DOMAIN handles
  /\ \A h \in DOMAIN handles : /\ handles[h].exit \in {"open", "value", "interrupt"}
                               /\ handles[h].listeners \in Nat
  /\ \A c \in Client, k \in Key :
       pc[c][k] \in {"none", "idle", "blocked", "unstarted", "waiting", "ended"}

Waits(c, k, h) == pc[c][k] \in {"unstarted", "waiting"} /\ handle[c][k] = h

Runs(h) ==
  \/ \E i \in DOMAIN blocks : h \in Entries(blocks[i]) /\ blocks[i].child \notin {"ended", "failed"}
  \/ \E c \in Client, k \in Key : pc[c][k] = "blocked" /\ owned[c][k] /\ handle[c][k] = h

\* Who waits for an answer gets one: its request is being run, or somebody is
\* about to have it run, unless the one who was to do so was interrupted before
\* or its data source died.
WaitsForSomebody ==
  \A c \in Client, k \in Key : \A h \in DOMAIN handles \ lost : Waits(c, k, h) /\ Open(h) => Runs(h)

\* The data source of a block is interrupted only when nobody waits for any of it.
StopsOnlyUnneeded ==
  \A i \in DOMAIN blocks :
    blocks[i].child \in {"forking", "attached"} /\ blocks'[i].child = "stopping" =>
      \A h \in Entries(blocks[i]), c \in Client, k \in Key :
        ~(Waits(c, k, h) /\ Waits(c, k, h)' /\ Open(h)')

StopsForNobody == [][StopsOnlyUnneeded]_vars

\* An interruption answers only who was interrupted, or asked a data source that
\* left the request open.
AnsweredForReal ==
  \A c \in Client, k \in Key :
    answer[c][k] = "interrupt" =>
      c \in told \/ \E i \in DOMAIN blocks : /\ handle[c][k] \in Entries(blocks[i])
                                           /\ blocks[i].source = "left"

\* "Data sources must provide results for all requests received. Failure to do so will
\* cause a query to die with a `QueryFailure` when run." (src/src/RequestResolver.ts:44)
\* Nobody waits for a request that is never answered.
NobodyWaitsForever ==
  \A c \in Client, k \in Key, h \in DOMAIN handles : Waits(c, k, h) /\ Open(h) => Runs(h)
=============================================================================
