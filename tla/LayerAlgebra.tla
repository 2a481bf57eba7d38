---------------------------- MODULE LayerAlgebra ----------------------------
(***************************************************************************)
(* The layers of src/internal/layer.ts: the primitive operations, which are *)
(* what Layer builds, and the functions that make layers of layers.  What a *)
(* layer provides is left out, except that a build ends "ok", in a typed    *)
(* failure ("fail"), in a defect ("die") or interrupted.                   *)
(***************************************************************************)
EXTENDS Integers, Sequences, TLC

Outcome == {"ok", "fail", "die", "interrupt"}

(* The primitives.                                                         *)

\* An effect of the program, which may end in any of `ends`; a Scoped one that
\* succeeds has acquired a resource.
FromEffectContext(name, ends) == [tag |-> "FromEffect", name |-> name, ends |-> ends]
ScopedContext(name, ends)     == [tag |-> "Scoped", name |-> name, ends |-> ends]

Suspend(l)       == [tag |-> "Suspend", parts |-> <<l>>]
Fresh(l)         == [tag |-> "Fresh", parts |-> <<l>>]
ExtendScope(l)   == [tag |-> "ExtendScope", parts |-> <<l>>]
LocallyEffect(l) == [tag |-> "Locally", parts |-> <<l>>]
ProvideTo(a, b)  == [tag |-> "ProvideTo", parts |-> <<a, b>>]
ZipWith(a, b)    == [tag |-> "ZipWith", parts |-> <<a, b>>]
ZipWithPar(a, b) == Suspend([tag |-> "ZipWithPar", parts |-> <<a, b>>])

\* matchCause: `on` has the layer that follows each outcome.
MatchCause(l, failure, success) ==
  [tag |-> "Fold", parts |-> <<l>>,
   on |-> [r \in Outcome |-> IF r = "ok" THEN success ELSE failure[r]]]

IsLeaf(l) == l.tag \in {"FromEffect", "Scoped"}

\* failureOrCause of what two parts came to: a typed failure if there is one.
Combined(results) ==
  CASE results = {"ok"}       -> "ok"
    [] "fail" \in results     -> "fail"
    [] "die" \in results      -> "die"
    [] OTHER                  -> "interrupt"
----------------------------------------------------------------------------
(* Layers that only end.                                                   *)

Succeed        == FromEffectContext("succeed", {"ok"})
SucceedContext == Succeed
Context        == FromEffectContext("context", {"ok"})
FailCause(r)   == FromEffectContext(r, {r})
FailWith       == FailCause("fail")
Die            == FailCause("die")
Sync           == FromEffectContext("sync", {"ok", "die"})
Service        == FromEffectContext("service", {"ok"})
LayerScope     == ScopedContext("scope", {"ok"})
LocallyScoped  == ScopedContext("fiberRef", {"ok"})
----------------------------------------------------------------------------
(* What is made of others.                                                 *)

\* match: a cause without a typed failure goes on.
Match(l, failure, success) ==
  MatchCause(l, [r \in Outcome |-> IF r = "fail" THEN failure ELSE FailCause(r)], success)

CatchAll(l, handler)      == Match(l, handler, SucceedContext)
CatchAllCause(l, handler) == MatchCause(l, [r \in Outcome |-> handler], SucceedContext)
FlatMap(l, next)          == Match(l, FailWith, next)
Map(l)                    == FlatMap(l, SucceedContext)
Discard(l)                == Map(l)
Project(l)                == Map(l)
MapError(l)               == CatchAll(l, FailWith)
OrDie(l)                  == CatchAll(l, Die)
OrElse(l, that)           == CatchAll(l, that)
Tap(l, name, ends)        == FlatMap(l, FromEffectContext(name, ends))
TapError(l, name)         == CatchAll(l, FromEffectContext(name, {"fail"}))
TapErrorCause(l, name)    ==
  MatchCause(l, [r \in Outcome |-> FromEffectContext(name, {r})], SucceedContext)
Locally(l)                == LocallyEffect(l)

Merge(a, b)    == ZipWithPar(a, b)
MergeAll(ls)   ==
  LET all[i \in 1..Len(ls)] == IF i = 1 THEN ls[1] ELSE Merge(all[i - 1], ls[i])
  IN all[Len(ls)]
Passthrough(l) == Merge(Context, l)

\* provide and use: what `l` gives, with what is there already, is what `that` is
\* built with.
Provide(l, that)      == Suspend(ProvideTo(ZipWith(Context, l), that))
ProvideMerge(l, that) == ZipWith(l, Provide(l, that))
Use(that, l)          == Suspend(ProvideTo(ZipWith(Context, l), that))
UseMerge(that, l)     == ZipWith(l, Provide(l, that))

\* retry: a schedule that allows n more attempts.  Each is a fresh layer.
RetryUpdate(n) == FromEffectContext("retry", IF n = 0 THEN {"fail"} ELSE {"ok"})
RetryLoop(l, most) ==
  LET loop[n \in 0..most] ==
        CatchAll(l, FlatMap(RetryUpdate(n), IF n = 0 THEN FailWith ELSE Fresh(loop[n - 1])))
  IN loop[most]
Retry(l, n) == Suspend(FlatMap(Succeed, RetryLoop(l, n)))
=============================================================================
