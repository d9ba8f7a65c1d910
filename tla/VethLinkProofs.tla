--------------------------- MODULE VethLinkProofs ---------------------------
(***************************************************************************)
(* VethLink for every number of retries and every set of failures: the     *)
(* recorded state of the link matches the kernel, and a caller of Deploy   *)
(* that is told it succeeded has its end in place.                         *)
(***************************************************************************)
EXTENDS VethLink, TLAPS, FiniteSetTheorems

Where == {"none", "root", "moved", "up"}
State == {"not", "half", "full"}

\* StateMatchesKernel, for the values an attempt is about to store.
Matches(w, st) ==
    /\ st = "full" => w[0] = "up" /\ w[1] = "up"
    /\ st = "half" => \/ w[0] = "up" /\ w[1] # "none"
                      \/ w[1] = "up" /\ w[0] # "none"
    /\ st = "not"  => w[0] # "up" /\ w[1] # "up"

\* What every outcome of an attempt for e has in common.
Sound(o, e) ==
    /\ o.where \in [End -> Where]
    /\ o.state \in State
    /\ o.err \in {"nil", "transient", "permanent"}
    /\ o.struck \subseteq FaultKind
    /\ Cardinality(o.struck) \in Nat
    /\ Matches(o.where, o.state)
    /\ o.err = "nil" => /\ o.where[e] = "up"
                        /\ Peer(e) \in nodeless => o.where[Peer(e)] = "up"

\* Between locking and unlocking a call owns the mutex, and the choice it has made
\* between the two ends is still the right one.
Excl ==
    \A e \in End :
        /\ pc[e] \in {"try", "A", "B", "backoff"} => deployMutex = e
        /\ pc[e] = "A" => DeploymentState = "not"
        /\ pc[e] = "B" => DeploymentState = "half"

\* The loop makes an attempt only while there is one left.
AttemptsLeft ==
    \A e \in End : /\ pc[e] \in {"idle", "lock"} => attempt[e] = 0
                   /\ pc[e] \in {"try", "A", "B"} => attempt[e] < linkDeployRetries

\* The inductive invariant.
LinkInv == TypeOK /\ Excl /\ AttemptsLeft /\ Matches(where, DeploymentState) /\ SuccessIsAttached

\* A failure of a kernel call is one of the declared faults, and its class says
\* whether LinkVEth.Deploy takes it for transient.
LEMMA FailureFacts ==
    ASSUME NEW k \in {"before", "after"}, NEW f \in Failures(k)
    PROVE  /\ f \in FaultKind
           /\ f[2] \in {"transient", "permanent"}
           /\ Cardinality({f}) \in Nat
<1>1. f \in FaultKind
  BY FaultAssumption DEF Failures
<1>2. f[2] \in {"transient", "permanent"}
  BY <1>1 DEF FaultKind, Failures, Uncleaned
<1>3. Cardinality({f}) = 1
  BY FS_Singleton
<1> QED BY <1>1, <1>2, <1>3

\* A failing cleanup is a declared fault, and a second one of its attempt.
LEMMA CleanupFacts ==
    ASSUME NEW f \in WithFailingCleanup
    PROVE  /\ f[2] \in {"transient", "permanent"}
           /\ {f, Uncleaned} \subseteq FaultKind
           /\ Uncleaned[1] = "cleanup"
           /\ Cardinality({f, Uncleaned}) \in Nat
<1>0. f \in Failures("before")
  BY DEF WithFailingCleanup
<1> DEFINE c == Uncleaned
<1>1. f \in FaultKind /\ f[2] \in {"transient", "permanent"} /\ c \in FaultKind /\ c[1] = "cleanup"
  BY <1>0, FailureFacts DEF FaultKind, Uncleaned
<1> HIDE DEF c
<1>2. IsFiniteSet({f}) /\ IsFiniteSet({f, c})
  <2>1. IsFiniteSet({f})
    BY FS_Singleton
  <2>2. IsFiniteSet({f} \cup {c})
    BY <2>1, FS_AddElement
  <2>3. {f} \cup {c} = {f, c}
    OBVIOUS
  <2> QED BY <2>1, <2>2, <2>3
<1>3. Cardinality({f, c}) \in Nat
  BY <1>2, FS_CardinalityType
<1> QED BY <1>1, <1>3 DEF c

\* deployBEnd for e, with the ends at w, after the other end is up.
LEMMA BEndSound ==
    ASSUME NEW w \in [End -> Where], NEW e \in End,
           w[Peer(e)] = "up" \/ (w[e] = "up" /\ w[Peer(e)] # "none"),
           w[e] # "none",
           DeploymentState = "half" \/ w[e] = "root",
           NEW o \in BEnd(w, e)
    PROVE  /\ Sound(o, e)
           /\ o.err = "nil" => o.where[Peer(e)] = "up"
<1> USE DEF End, Peer
<1>1. CASE w[e] # "root"
  <2>1. o = Outcome(w, DeploymentState, "permanent", {})
    BY <1>1 DEF BEnd
  <2>2. Cardinality({}) = 0
    BY FS_EmptySet
  <2> QED BY <1>1, <2>1, <2>2 DEF Sound, Matches, Outcome, Where, State
<1>2. CASE w[e] = "root"
  <2>1. CASE o = Outcome([w EXCEPT ![e] = "up"], "full", "nil", {})
    <3>1. Cardinality({}) = 0
      BY FS_EmptySet
    <3> QED BY <1>2, <2>1, <3>1 DEF Sound, Matches, Outcome, Where, State
  <2>2. ASSUME NEW f \in Failures("before"), o = Outcome(w, "half", f[2], {f})
        PROVE  Sound(o, e) /\ o.err # "nil"
    <3>1. f \in FaultKind /\ f[2] \in {"transient", "permanent"} /\ Cardinality({f}) \in Nat
      BY FailureFacts
    <3>2. o.where = w /\ o.state = "half" /\ o.err = f[2] /\ o.struck = {f}
      BY <2>2 DEF Outcome
    <3> QED BY <1>2, <3>1, <3>2 DEF Sound, Matches, Where, State
  <2>3. ASSUME NEW f \in Failures("after"), o = Outcome([w EXCEPT ![e] = "moved"], "half", f[2], {f})
        PROVE  Sound(o, e) /\ o.err # "nil"
    <3>1. f \in FaultKind /\ f[2] \in {"transient", "permanent"} /\ Cardinality({f}) \in Nat
      BY FailureFacts
    <3>2. o.where = [w EXCEPT ![e] = "moved"] /\ o.state = "half" /\ o.err = f[2] /\ o.struck = {f}
      BY <2>3 DEF Outcome
    <3> QED BY <1>2, <3>1, <3>2 DEF Sound, Matches, Where, State
  <2> QED BY <1>2, <2>1, <2>2, <2>3 DEF BEnd, Sound
<1> QED BY <1>1, <1>2

\* deployAEnd for e up to its own end, on a link that is not deployed.
LEMMA AEndSound ==
    ASSUME NEW w \in [End -> Where], NEW e \in End,
           Matches(w, "not"), DeploymentState = "not",
           NEW o \in AEnd(w, e)
    PROVE  \/ o.err # "nil" /\ Sound(o, e)
           \/ /\ o.err = "nil" /\ o.struck = {} /\ o.state = "half"
              /\ o.where = [x \in End |-> IF x = e THEN "up" ELSE "root"]
<1> USE DEF End, Peer
<1>0. Cardinality({}) = 0
  BY FS_EmptySet
<1>1. CASE \E x \in End : w[x] = "root"
  <2>1. o = Outcome(w, DeploymentState, "permanent", {})
    BY <1>1 DEF AEnd
  <2> QED BY <1>0, <2>1 DEF Sound, Matches, Outcome, Where, State
<1>2. CASE ~ \E x \in End : w[x] = "root"
  <2>1. CASE o = Outcome([x \in End |-> IF x = e THEN "up" ELSE "root"], "half", "nil", {})
    BY <2>1 DEF Outcome
  <2>2. ASSUME NEW f \in Failures("before"),
               o = Outcome([x \in End |-> "none"], DeploymentState, f[2], {f})
        PROVE  Sound(o, e) /\ o.err # "nil"
    BY <2>2, FailureFacts DEF Sound, Matches, Outcome, Where, State
  <2>3. ASSUME NEW f \in Failures("after"),
               o = Outcome([x \in End |-> IF x = e THEN "moved" ELSE "root"],
                           DeploymentState, f[2], {f})
        PROVE  Sound(o, e) /\ o.err # "nil"
    BY <2>3, FailureFacts DEF Sound, Matches, Outcome, Where, State
  <2>4. ASSUME NEW f \in WithFailingCleanup,
               o = Outcome([x \in End |-> "root"], DeploymentState, f[2], {f, Uncleaned})
        PROVE  Sound(o, e) /\ o.err # "nil"
    <3>1. /\ {f, Uncleaned} \subseteq FaultKind /\ Cardinality({f, Uncleaned}) \in Nat
          /\ f[2] \in {"transient", "permanent"}
      BY CleanupFacts
    <3> QED BY <2>4, <3>1 DEF Sound, Matches, Outcome, Where, State
  <2> QED BY <1>2, <2>1, <2>2, <2>3, <2>4 DEF AEnd
<1> QED BY <1>1, <1>2

\* Whatever an attempt that was chosen rightly comes to, it is sound.
LEMMA AttemptSound ==
    ASSUME LinkInv, NEW e \in End, pc[e] \in {"A", "B"},
           NEW o \in IF pc[e] = "A" THEN deployAEnd(e) ELSE deployBEnd(e)
    PROVE  Sound(o, e)
<1>0. where \in [End -> Where] /\ Peer(e) \in End /\ Peer(e) # e /\ Peer(Peer(e)) = e
  BY DEF LinkInv, TypeOK, Where, End, Peer
<1>1. CASE pc[e] = "B"
  <2>1. o \in BEnd(where, e)
    BY <1>1 DEF deployBEnd
  <2>2. DeploymentState = "half"
    BY <1>1 DEF LinkInv, Excl
  <2>3. /\ where[Peer(e)] = "up" \/ (where[e] = "up" /\ where[Peer(e)] # "none")
        /\ where[e] # "none"
    BY <2>2, <1>0 DEF LinkInv, Matches, End, Peer
  <2> QED BY <1>0, <2>1, <2>2, <2>3, BEndSound
<1>2. CASE pc[e] = "A"
  <2>1. DeploymentState = "not" /\ Matches(where, "not")
    BY <1>2 DEF LinkInv, Excl
  <2>2. o \in deployAEnd(e)
    BY <1>2
  <2>3. CASE Peer(e) \notin nodeless
    <3>1. o \in AEnd(where, e)
      BY <2>2, <2>3 DEF deployAEnd
    <3>2. \/ Sound(o, e)
          \/ /\ o.err = "nil" /\ o.struck = {} /\ o.state = "half"
             /\ o.where = [x \in End |-> IF x = e THEN "up" ELSE "root"]
      BY <1>0, <2>1, <3>1, AEndSound
    <3>3. Cardinality({}) = 0
      BY FS_EmptySet
    <3> QED BY <2>3, <3>2, <3>3 DEF Sound, Matches, Where, State, End, Peer
  <2>4. CASE Peer(e) \in nodeless
    <3>1. ASSUME o \in AEnd(where, e), o.err # "nil"
          PROVE  Sound(o, e)
      <4>1. \/ o.err # "nil" /\ Sound(o, e)
            \/ /\ o.err = "nil" /\ o.struck = {} /\ o.state = "half"
               /\ o.where = [x \in End |-> IF x = e THEN "up" ELSE "root"]
        BY <1>0, <2>1, <3>1, AEndSound
      <4> QED BY <3>1, <4>1
    <3>2. ASSUME NEW a \in AEnd(where, e), a.err = "nil", o \in BEnd(a.where, Peer(e))
          PROVE  Sound(o, e)
      <4>1. a.where = [x \in End |-> IF x = e THEN "up" ELSE "root"]
        BY <1>0, <2>1, <3>2, AEndSound
      <4>2. a.where \in [End -> Where] /\ a.where[Peer(e)] = "root" /\ a.where[e] = "up"
        BY <1>0, <4>1 DEF Where
      <4>3. Sound(o, Peer(e)) /\ (o.err = "nil" => o.where[e] = "up")
        BY <1>0, <3>2, <4>2, BEndSound
      <4> QED BY <1>0, <4>3 DEF Sound
    <3> QED BY <2>2, <2>4, <3>1, <3>2 DEF deployAEnd
  <2> QED BY <2>3, <2>4
<1> QED BY <1>1, <1>2

\* Before the first Deploy no end exists in the kernel and no end is marked.
LEMMA InitInv == Init => LinkInv
<1> SUFFICES ASSUME Init
             PROVE  LinkInv
  OBVIOUS
<1> USE RetriesAssumption DEF Init, End, Free
<1>1. TypeOK
  <2>1. nodeless \in SUBSET End /\ struck \subseteq FaultKind
    OBVIOUS
  <2>2. where \in [End -> Where]
    BY DEF Where
  <2>3. pc \in [End -> {"idle", "lock", "try", "A", "B", "backoff", "ok", "error"}]
    OBVIOUS
  <2>4. attempt \in [End -> 0..linkDeployRetries]
    OBVIOUS
  <2>5. /\ DeploymentState \in State
        /\ deployMutex \in End \cup {Free}
        /\ faults \in Nat
        /\ cancelled \in BOOLEAN
    BY DEF State
  <2> QED BY <2>1, <2>2, <2>3, <2>4, <2>5 DEF TypeOK, Where, State
<1>2. Excl /\ SuccessIsAttached
  BY DEF Excl, SuccessIsAttached
<1>3. AttemptsLeft
  BY DEF AttemptsLeft
<1>4. Matches(where, DeploymentState)
  BY DEF Matches
<1> QED BY <1>1, <1>2, <1>3, <1>4 DEF LinkInv

\* Every step of LinkVEth.Deploy, of either end, keeps the invariant.
LEMMA NextInv == LinkInv /\ [Next]_vars => LinkInv'
<1> SUFFICES ASSUME LinkInv, [Next]_vars
             PROVE  LinkInv'
  OBVIOUS
<1> USE RetriesAssumption DEF End, Free, Peer
<1>1. ASSUME NEW e \in End, Deploy(e)
      PROVE  LinkInv'
  BY <1>1 DEF Deploy, LinkInv, TypeOK, Excl, AttemptsLeft, Matches, SuccessIsAttached
<1>2. ASSUME NEW e \in End, Lock(e)
      PROVE  LinkInv'
  BY <1>2 DEF Lock, LinkInv, TypeOK, Excl, AttemptsLeft, Matches, SuccessIsAttached
<1>3. ASSUME NEW e \in End, choose(e)
      PROVE  LinkInv'
  BY <1>3 DEF choose, Return, LinkInv, TypeOK, Excl, AttemptsLeft, Matches, SuccessIsAttached
<1>4. ASSUME NEW e \in End, tryDeploy(e)
      PROVE  LinkInv'
  <2>1. PICK o \in IF pc[e] = "A" THEN deployAEnd(e) ELSE deployBEnd(e) :
            /\ where' = o.where
            /\ DeploymentState' = o.state
            /\ faults' = faults + Cardinality(o.struck)
            /\ struck' = struck \cup o.struck
            /\ \/ o.err = "nil" /\ Return(e, "ok")
               \/ o.err = "permanent" /\ Return(e, "error")
               \/ o.err = "transient" /\ backOff(e)
    BY <1>4 DEF tryDeploy
  <2>2. Sound(o, e)
    BY <1>4, <2>1, AttemptSound DEF tryDeploy
  <2>3. /\ pc[e] \in {"A", "B"}
        /\ attempt' = [attempt EXCEPT ![e] = @ + 1]
        /\ UNCHANGED <<nodeless, cancelled>>
    BY <1>4 DEF tryDeploy
  <2>4. \/ o.err = "nil" /\ pc' = [pc EXCEPT ![e] = "ok"] /\ deployMutex' = Free
        \/ o.err = "permanent" /\ pc' = [pc EXCEPT ![e] = "error"] /\ deployMutex' = Free
        \/ o.err = "transient" /\ pc' = [pc EXCEPT ![e] = "backoff"] /\ deployMutex' = deployMutex
    BY <2>1 DEF Return, backOff
  <2>5. deployMutex = e /\ \A x \in End \ {e} : pc[x] \notin {"try", "A", "B", "backoff"}
    BY <2>3 DEF LinkInv, Excl
  <2>6. TypeOK'
    BY <2>1, <2>2, <2>3, <2>4 DEF LinkInv, TypeOK, Sound, AttemptsLeft, Where, State
  <2>7. Excl'
    BY <2>3, <2>4, <2>5 DEF LinkInv, TypeOK, Excl
  <2>8. AttemptsLeft'
    BY <2>3, <2>4 DEF LinkInv, TypeOK, AttemptsLeft
  <2>9. Matches(where, DeploymentState)'
    BY <2>1, <2>2 DEF Sound, Matches
  <2>10. SuccessIsAttached'
    <3> SUFFICES ASSUME NEW x \in End, pc'[x] = "ok"
                 PROVE  /\ where'[x] = "up"
                        /\ Peer(x) \in nodeless => where'[Peer(x)] = "up"
      BY <2>3 DEF SuccessIsAttached
    <3>1. CASE x = e
      BY <3>1, <2>1, <2>2, <2>3, <2>4 DEF Sound, LinkInv, TypeOK
    <3>2. CASE x # e
      <4>1. pc[x] = "ok" /\ where[x] = "up" /\ (Peer(x) \in nodeless => where[Peer(x)] = "up")
        BY <3>2, <2>4 DEF LinkInv, TypeOK, SuccessIsAttached
      <4>2. pc[e] = "B" /\ DeploymentState = "half"
        BY <2>3, <4>1 DEF LinkInv, Excl, Matches
      <4>3. o \in BEnd(where, e)
        BY <2>1, <4>2 DEF deployBEnd
      <4>4. where[e] # "up" => where[Peer(x)] # "up"
        BY <3>2
      <4>5. o.where[x] = "up" /\ (where[e] = "up" => o.where = where)
        BY <3>2, <4>1, <4>3 DEF BEnd, Outcome, LinkInv, TypeOK
      <4> QED BY <2>1, <4>1, <4>4, <4>5, <3>2
    <3> QED BY <3>1, <3>2
  <2> QED BY <2>6, <2>7, <2>8, <2>9, <2>10 DEF LinkInv
<1>5. ASSUME NEW e \in End, endBackoff(e)
      PROVE  LinkInv'
  BY <1>5 DEF endBackoff, Return, LinkInv, TypeOK, Excl, AttemptsLeft, Matches, SuccessIsAttached
<1>6. CASE cancel
  BY <1>6 DEF cancel, LinkInv, TypeOK, Excl, AttemptsLeft, Matches, SuccessIsAttached
<1>7. CASE UNCHANGED vars
  BY <1>7 DEF vars, LinkInv, TypeOK, Excl, AttemptsLeft, Matches, SuccessIsAttached
<1> QED BY <1>1, <1>2, <1>3, <1>4, <1>5, <1>6, <1>7 DEF Next, Step

\* The invariant holds in every reachable state of the link.
LEMMA LinkInvHolds == Spec => []LinkInv
BY InitInv, NextInv, PTL DEF Spec

\* The retry loop of LinkVEth.Deploy never makes more attempts than
\* linkDeployRetries, and all of the state is well typed.
THEOREM TypeCorrect == Spec => []TypeOK
<1>1. LinkInv => TypeOK
  BY DEF LinkInv
<1> QED BY <1>1, LinkInvHolds, PTL

\* DeploymentState always tells what the kernel has of the link, whatever fails
\* in deployAEnd and deployBEnd and however the two callers interleave.
THEOREM StateIsNotStale == Spec => []StateMatchesKernel
<1>1. LinkInv => StateMatchesKernel
  BY DEF LinkInv, Matches, StateMatchesKernel, End, Peer
<1> QED BY <1>1, LinkInvHolds, PTL

\* A caller that Deploy told it succeeded has its end up in its node, and the end
\* without a node with it.
THEOREM SuccessIsAttachedHolds == Spec => []SuccessIsAttached
<1>1. LinkInv => SuccessIsAttached
  BY DEF LinkInv
<1> QED BY <1>1, LinkInvHolds, PTL
(***************************************************************************)
(* Retries.  As long as the failures are transient and come before the     *)
(* move, an end without its node is in the root namespace for the other    *)
(* caller, every failure costs one attempt, and nothing else ends a call.  *)
(***************************************************************************)
Mild == nodeless = {} /\ \A f \in struck : f[1] = "before" /\ f[2] = "transient"

\* A half deployed link: one caller is done, the end of the other is waiting.
HalfWaits ==
    DeploymentState = "half" =>
        \E e \in End : pc[e] = "ok" /\ where[e] = "up" /\ where[Peer(e)] = "root"

\* A call in its loop has met as many failures as it has made attempts.
AttemptsCounted ==
    \A e \in End : pc[e] \in {"lock", "try", "A", "B", "backoff"} => attempt[e] <= faults

ErrorJustified ==
    \A e \in End : pc[e] = "error" => cancelled \/ linkDeployRetries <= faults

\* What is left of a link that is not deployed keeps its name in the root namespace,
\* and a failed cleanup leaves both ends there.
LeftoverBlocks ==
    /\ DeploymentState = "not" => \/ \A e \in End : where[e] = "none"
                                  \/ \E e \in End : where[e] = "root"
    /\ (\E f \in struck : f[1] = "cleanup") => DeploymentState = "not"

RetryInv ==
    /\ OrphansExplained
    /\ LeftoverBlocks
    /\ Mild => HalfWaits /\ AttemptsCounted /\ ErrorJustified

\* What an attempt comes to on a link whose leftovers are explained: its own
\* leftovers are explained by its failures.
LEMMA AttemptExplains ==
    ASSUME LinkInv, RetryInv, NEW e \in End, pc[e] \in {"A", "B"},
           NEW o \in IF pc[e] = "A" THEN deployAEnd(e) ELSE deployBEnd(e)
    PROVE  /\ o.state = "not" =>
                  /\ (\E x \in End : o.where[x] # "none")
                         <=> (\E f \in struck \cup o.struck : f[1] \in {"after", "cleanup"})
                  /\ \/ \A x \in End : o.where[x] = "none"
                     \/ \E x \in End : o.where[x] = "root"
           /\ (\E f \in struck \cup o.struck : f[1] = "cleanup") => o.state = "not" /\ o.err # "nil"
<1> DEFINE Late(S) == \E f \in S : f[1] \in {"after", "cleanup"}
           Clean(S) == \E f \in S : f[1] = "cleanup"
<1> USE DEF End, Peer
<1>0. ASSUME NEW w, NEW x \in End, NEW b \in BEnd(w, x), w[x] = "root" \/ DeploymentState = "half"
      PROVE  b.state \in {"half", "full"} /\ ~ Clean(b.struck)
  <2>1. CASE w[x] # "root"
    BY <1>0, <2>1 DEF BEnd, Outcome
  <2>2. CASE w[x] = "root"
    BY <2>2 DEF BEnd, Outcome, Failures
  <2> QED BY <2>1, <2>2
<1>1. CASE pc[e] = "B"
  <2>1. DeploymentState = "half" /\ o \in BEnd(where, e)
    BY <1>1 DEF LinkInv, Excl, deployBEnd
  <2>2. ~ Clean(struck)
    BY <2>1 DEF RetryInv, LeftoverBlocks
  <2>3. o.state \in {"half", "full"} /\ ~ Clean(o.struck)
    BY <1>0, <2>1
  <2> QED BY <2>2, <2>3
<1>2. CASE pc[e] = "A"
  <2>1. DeploymentState = "not"
    BY <1>2 DEF LinkInv, Excl
  <2>2. CASE \E x \in End : where[x] = "root"
    <3>1. \A a \in AEnd(where, e) : a = Outcome(where, "not", "permanent", {})
      BY <2>1, <2>2 DEF AEnd
    <3>2. o = Outcome(where, "not", "permanent", {})
      BY <1>2, <3>1 DEF deployAEnd, Outcome
    <3>3. o.where = where /\ o.state = "not" /\ o.err = "permanent" /\ o.struck = {}
      BY <3>2 DEF Outcome
    <3> QED BY <2>1, <2>2, <3>3 DEF RetryInv, OrphansExplained
  <2>3. CASE ~ \E x \in End : where[x] = "root"
    <3>1. (\A x \in End : where[x] = "none") /\ ~ Late(struck) /\ ~ Clean(struck)
      BY <2>1, <2>3 DEF RetryInv, OrphansExplained, LeftoverBlocks
    <3>2. ASSUME NEW a \in AEnd(where, e)
          PROVE  \/ /\ a.err = "nil" /\ a.state = "half" /\ a.struck = {}
                    /\ a.where = [x \in End |-> IF x = e THEN "up" ELSE "root"]
                 \/ /\ a.err # "nil" /\ a.state = "not" /\ ~ Late(a.struck)
                    /\ \A x \in End : a.where[x] = "none"
                 \/ /\ a.err # "nil" /\ a.state = "not" /\ Late(a.struck)
                    /\ \E x \in End : a.where[x] = "root"
      <4>1. CASE a = Outcome([x \in End |-> IF x = e THEN "up" ELSE "root"], "half", "nil", {})
        BY <4>1 DEF Outcome
      <4>2. ASSUME NEW f \in Failures("before"), a = Outcome([x \in End |-> "none"], DeploymentState, f[2], {f})
            PROVE  a.err # "nil" /\ a.state = "not" /\ ~ Late(a.struck) /\ \A x \in End : a.where[x] = "none"
        <5>1. f[1] = "before" /\ f[2] # "nil"
          BY FailureFacts DEF Failures
        <5> QED BY <2>1, <4>2, <5>1 DEF Outcome
      <4>3. ASSUME NEW f \in WithFailingCleanup,
                   a = Outcome([x \in End |-> "root"], DeploymentState, f[2], {f, Uncleaned})
            PROVE  a.err # "nil" /\ a.state = "not" /\ Late(a.struck) /\ \E x \in End : a.where[x] = "root"
        <5>1. Uncleaned[1] = "cleanup" /\ f[2] # "nil"
          BY CleanupFacts
        <5> QED BY <2>1, <4>3, <5>1 DEF Outcome
      <4>4. ASSUME NEW f \in Failures("after"),
                   a = Outcome([x \in End |-> IF x = e THEN "moved" ELSE "root"], DeploymentState, f[2], {f})
            PROVE  a.err # "nil" /\ a.state = "not" /\ Late(a.struck) /\ \E x \in End : a.where[x] = "root"
        <5>1. f[1] = "after" /\ f[2] # "nil"
          BY FailureFacts DEF Failures
        <5> QED BY <2>1, <4>4, <5>1 DEF Outcome
      <4> QED BY <2>3, <4>1, <4>2, <4>3, <4>4 DEF AEnd
    <3>3. CASE o \in AEnd(where, e)
      BY <3>1, <3>2, <3>3
    <3>4. ASSUME NEW a \in AEnd(where, e), a.err = "nil", o \in BEnd(a.where, Peer(e))
          PROVE  o.state \in {"half", "full"} /\ ~ Clean(o.struck)
      <4>0. a.where = [x \in End |-> IF x = e THEN "up" ELSE "root"]
        BY <3>2, <3>4
      <4>1. a.where[Peer(e)] = "root" /\ Peer(e) \in End
        BY <4>0
      <4> QED BY <1>0, <3>4, <4>1
    <3> QED BY <1>2, <3>1, <3>3, <3>4 DEF deployAEnd
  <2> QED BY <2>2, <2>3
<1> QED BY <1>1, <1>2

\* What an attempt comes to on a link between two nodes whose failures are mild: it
\* succeeds, or it meets a transient failure and changes nothing.
LEMMA MildAttempt ==
    ASSUME LinkInv, RetryInv, Mild, NEW e \in End, pc[e] \in {"A", "B"},
           NEW o \in IF pc[e] = "A" THEN deployAEnd(e) ELSE deployBEnd(e),
           \A f \in o.struck : f[1] = "before" /\ f[2] = "transient"
    PROVE  \/ /\ o.err = "nil"
              /\ o.state = "half" => o.where[e] = "up" /\ o.where[Peer(e)] = "root"
           \/ /\ o.err = "transient" /\ Cardinality(o.struck) = 1
              /\ o.where = where /\ o.state = DeploymentState
<1> USE DEF End, Peer
<1>0. \A f : Cardinality({f}) = 1
  BY FS_Singleton
<1>1. CASE pc[e] = "B"
  <2>1. DeploymentState = "half" /\ o \in BEnd(where, e)
    BY <1>1 DEF LinkInv, Excl, deployBEnd
  <2>2. where[e] = "root"
    BY <1>1, <2>1 DEF RetryInv, HalfWaits
  <2>3. CASE o = Outcome([where EXCEPT ![e] = "up"], "full", "nil", {})
    BY <2>3 DEF Outcome
  <2>4. ASSUME NEW f \in Failures("before"), o = Outcome(where, "half", f[2], {f})
        PROVE  o.err = "transient" /\ o.struck = {f} /\ o.where = where /\ o.state = "half"
    BY <2>4 DEF Outcome
  <2>5. ASSUME NEW f \in Failures("after"), f \in o.struck PROVE FALSE
    BY <2>5 DEF Failures
  <2>6. \/ o = Outcome([where EXCEPT ![e] = "up"], "full", "nil", {})
        \/ \E f \in Failures("before") : o = Outcome(where, "half", f[2], {f})
        \/ \E f \in Failures("after") : f \in o.struck
    BY <2>1, <2>2 DEF BEnd, Outcome
  <2> QED
    BY <1>0, <2>1, <2>3, <2>4, <2>5, <2>6
<1>2. CASE pc[e] = "A"
  <2>1. DeploymentState = "not" /\ o \in AEnd(where, e)
    BY <1>2 DEF LinkInv, Excl, deployAEnd, Mild
  <2>2. where[0] = "none" /\ where[1] = "none" /\ where = [x \in End |-> "none"]
    BY <2>1 DEF RetryInv, OrphansExplained, Mild, LinkInv, TypeOK
  <2>3. CASE o = Outcome([x \in End |-> IF x = e THEN "up" ELSE "root"], "half", "nil", {})
    BY <2>3 DEF Outcome
  <2>4. ASSUME NEW f \in Failures("before"),
               o = Outcome([x \in End |-> "none"], DeploymentState, f[2], {f})
        PROVE  o.err = "transient" /\ o.struck = {f} /\ o.where = where /\ o.state = DeploymentState
    BY <2>2, <2>4 DEF Outcome
  <2>5. ASSUME NEW f \in Failures("after"), f \in o.struck PROVE FALSE
    BY <2>5 DEF Failures
  <2>6. \/ o = Outcome([x \in End |-> IF x = e THEN "up" ELSE "root"], "half", "nil", {})
        \/ \E f \in Failures("before") : o = Outcome([x \in End |-> "none"], DeploymentState, f[2], {f})
        \/ \E f \in Failures("after") : f \in o.struck
        \/ Uncleaned \in o.struck
    BY <2>1, <2>2 DEF AEnd, Outcome
  <2>7. Uncleaned \notin o.struck
    BY DEF Uncleaned
  <2> QED
    BY <1>0, <2>3, <2>4, <2>5, <2>6, <2>7
<1> QED
  BY <1>1, <1>2

\* No attempt has been made and no failure met at first.
LEMMA InitRetryInv == Init => RetryInv
  BY DEF Init, RetryInv, OrphansExplained, LeftoverBlocks, Mild, HalfWaits, AttemptsCounted, ErrorJustified, End

\* Every step of LinkVEth.Deploy keeps the invariant of the retries.
LEMMA NextRetryInv == LinkInv /\ RetryInv /\ [Next]_vars => RetryInv'
<1> SUFFICES ASSUME LinkInv, RetryInv, [Next]_vars
             PROVE  RetryInv'
  OBVIOUS
<1> USE RetriesAssumption DEF End, Free, Peer
<1>1. ASSUME NEW e \in End, Deploy(e)
      PROVE  RetryInv'
  BY <1>1 DEF Deploy, LinkInv, TypeOK, AttemptsLeft, RetryInv, OrphansExplained, LeftoverBlocks, Mild, HalfWaits,
              AttemptsCounted, ErrorJustified
<1>2. ASSUME NEW e \in End, Lock(e)
      PROVE  RetryInv'
  BY <1>2 DEF Lock, LinkInv, TypeOK, RetryInv, OrphansExplained, LeftoverBlocks, Mild, HalfWaits,
              AttemptsCounted, ErrorJustified
<1>3. ASSUME NEW e \in End, choose(e)
      PROVE  RetryInv'
  BY <1>3 DEF choose, Return, LinkInv, TypeOK, RetryInv, OrphansExplained, LeftoverBlocks, Mild, HalfWaits,
              AttemptsCounted, ErrorJustified
<1>4. ASSUME NEW e \in End, tryDeploy(e)
      PROVE  RetryInv'
  <2>1. PICK o \in IF pc[e] = "A" THEN deployAEnd(e) ELSE deployBEnd(e) :
            /\ where' = o.where
            /\ DeploymentState' = o.state
            /\ faults' = faults + Cardinality(o.struck)
            /\ struck' = struck \cup o.struck
            /\ \/ o.err = "nil" /\ Return(e, "ok")
               \/ o.err = "permanent" /\ Return(e, "error")
               \/ o.err = "transient" /\ backOff(e)
    BY <1>4 DEF tryDeploy
  <2>2. /\ pc[e] \in {"A", "B"}
        /\ attempt' = [attempt EXCEPT ![e] = @ + 1]
        /\ UNCHANGED <<nodeless, cancelled>>
    BY <1>4 DEF tryDeploy
  <2>3. \/ o.err = "nil" /\ pc' = [pc EXCEPT ![e] = "ok"]
        \/ o.err = "permanent" /\ pc' = [pc EXCEPT ![e] = "error"]
        \/ o.err = "transient" /\ pc' = [pc EXCEPT ![e] = "backoff"]
    BY <2>1 DEF Return, backOff
  <2>4. Cardinality(o.struck) \in Nat
    BY <2>1, <2>2, AttemptSound DEF Sound
  <2>5. OrphansExplained' /\ LeftoverBlocks'
    <3>1. /\ o.state = "not" =>
                 /\ (\E x \in End : o.where[x] # "none")
                        <=> (\E f \in struck \cup o.struck : f[1] \in {"after", "cleanup"})
                 /\ \/ \A x \in End : o.where[x] = "none"
                    \/ \E x \in End : o.where[x] = "root"
          /\ (\E f \in struck \cup o.struck : f[1] = "cleanup") => o.state = "not" /\ o.err # "nil"
      BY <2>1, <2>2, AttemptExplains
    <3>2. ASSUME \E f \in struck' : f[1] = "cleanup", NEW x \in End
          PROVE  pc'[x] # "ok"
      <4>1. DeploymentState' = "not" /\ o.err # "nil"
        BY <2>1, <3>1, <3>2
      <4>2. SuccessIsAttached' /\ Matches(where, DeploymentState)'
        BY NextInv DEF LinkInv
      <4> QED BY <4>1, <4>2 DEF SuccessIsAttached, Matches
    <3> QED BY <2>1, <3>1, <3>2 DEF OrphansExplained, LeftoverBlocks
  <2>6. ASSUME Mild' PROVE HalfWaits' /\ AttemptsCounted' /\ ErrorJustified'
    <3>1. Mild /\ \A f \in o.struck : f[1] = "before" /\ f[2] = "transient"
      BY <2>1, <2>2, <2>6 DEF Mild
    <3>2. \/ /\ o.err = "nil"
             /\ o.state = "half" => o.where[e] = "up" /\ o.where[Peer(e)] = "root"
          \/ /\ o.err = "transient" /\ Cardinality(o.struck) = 1
             /\ o.where = where /\ o.state = DeploymentState
      BY <2>1, <2>2, <3>1, MildAttempt
    <3>3. /\ HalfWaits /\ AttemptsCounted /\ ErrorJustified
          /\ pc \in [End -> {"idle", "lock", "try", "A", "B", "backoff", "ok", "error"}]
          /\ attempt \in [End -> 0..linkDeployRetries] /\ faults \in Nat
      BY <3>1 DEF RetryInv, LinkInv, TypeOK
    <3>4. HalfWaits'
      BY <2>1, <2>2, <2>3, <3>2, <3>3 DEF HalfWaits
    <3>5. AttemptsCounted'
      <4> SUFFICES ASSUME NEW x \in End, pc'[x] \in {"lock", "try", "A", "B", "backoff"}
                   PROVE  attempt'[x] <= faults'
        BY DEF AttemptsCounted
      <4>1. CASE x = e
        BY <2>1, <2>2, <2>3, <3>2, <3>3, <4>1 DEF AttemptsCounted
      <4>2. CASE x # e
        <5>1. attempt'[x] = attempt[x] /\ attempt[x] \in Nat /\ attempt[x] <= faults
          BY <2>2, <2>3, <3>3, <4>2 DEF AttemptsCounted
        <5> QED
          BY <2>1, <2>4, <3>3, <5>1
      <4> QED
        BY <4>1, <4>2
    <3>6. ErrorJustified'
      <4>1. \A x \in End : pc'[x] = "error" => pc[x] = "error"
        BY <2>3, <3>2, <3>3
      <4> QED
        BY <2>1, <2>2, <2>4, <3>3, <4>1 DEF ErrorJustified
    <3> QED
      BY <3>4, <3>5, <3>6
  <2> QED
    BY <2>5, <2>6 DEF RetryInv
<1>5. ASSUME NEW e \in End, endBackoff(e)
      PROVE  RetryInv'
  BY <1>5 DEF endBackoff, Return, LinkInv, TypeOK, RetryInv, OrphansExplained, LeftoverBlocks, Mild, HalfWaits,
              AttemptsCounted, ErrorJustified
<1>6. CASE cancel
  BY <1>6 DEF cancel, RetryInv, OrphansExplained, LeftoverBlocks, Mild, HalfWaits, AttemptsCounted, ErrorJustified
<1>7. CASE UNCHANGED vars
  BY <1>7 DEF vars, RetryInv, OrphansExplained, LeftoverBlocks, Mild, HalfWaits, AttemptsCounted, ErrorJustified
<1> QED BY <1>1, <1>2, <1>3, <1>4, <1>5, <1>6, <1>7 DEF Next, Step

\* The invariant of the retries holds in every reachable state of the link.
LEMMA RetryInvHolds == Spec => []RetryInv
BY InitRetryInv, NextRetryInv, LinkInvHolds, PTL DEF Spec

\* An interface that a link which is not deployed has left in the kernel is there
\* because a call failed after the move or the LinkDel of cleanup failed, every such
\* failure leaves one, and what cleanup has left keeps both callers from success.
THEOREM OrphansTheorem == Spec => []OrphansExplained
<1>1. RetryInv => OrphansExplained
  BY DEF RetryInv
<1> QED BY <1>1, RetryInvHolds, PTL

\* Fewer transient failures than linkDeployRetries never make Deploy fail on a link
\* between two nodes, for every number of retries, if they come before the move.
THEOREM RetriesSucceed == Spec => []NodeLinksAreRetried
<1>1. LinkInv /\ RetryInv => NodeLinksAreRetried
  BY RetriesAssumption DEF LinkInv, TypeOK, RetryInv, Mild, ErrorJustified, NodeLinksAreRetried,
                           TransientErrorsAreRetried
<1> QED BY <1>1, LinkInvHolds, RetryInvHolds, PTL
=============================================================================
