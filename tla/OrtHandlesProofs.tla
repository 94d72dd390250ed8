-------------------------- MODULE OrtHandlesProofs --------------------------
(***************************************************************************)
(* Proofs about OrtHandles: who owns what, at every step of every path.    *)
(***************************************************************************)
EXTENDS OrtHandles, TLAPS

(***************************************************************************)
(* The invariant.  Which variables own something follows from where the    *)
(* program is: what makes OneOwner inductive is that a call never assigns  *)
(* to a variable that still owns an object.                                *)
(***************************************************************************)
Holds(v) == slot[v] # Null

MadeSoFar ==
  /\ Holds("making") <=> at = 2
  /\ Holds("env") <=> at > 2
  /\ Holds("options") <=> at > 3
  /\ Holds("session") <=> at > 5
  /\ Holds("obs") <=> at > 6
  /\ Holds("mem") <=> at > 7
  /\ Holds("input") <=> at > 8
  /\ Holds("outputs") <=> at > 9

\* Destructors run against the declarations.
NeededOutlive ==
  /\ Holds("session") => Holds("env")
  /\ Holds("input") => Holds("obs")

WhereWeAre ==
  /\ mode = "running" => MadeSoFar /\ ~Holds("status")
  /\ mode = "idle" => \A v \in Var : Holds(v) <=> v \in Member
  /\ mode = "down" => \A v \in Var : ~Holds(v)
  /\ mode = "unwinding" /\ Scope # Var => \A v \in Member : Holds(v)

IInv == TypeOK /\ OneOwner /\ NeededOutlive /\ WhereWeAre

-----------------------------------------------------------------------------
(***************************************************************************)
(* Making, giving and releasing keep one owner for every object.           *)
(***************************************************************************)
LEMMA MakeKeepsOwners ==
  ASSUME slot \in [Var -> Id \cup {Null}], live \subseteq Id, OneOwner,
         NEW v \in Var, ~Holds(v), Make(v)
  PROVE  /\ slot' \in [Var -> Id \cup {Null}] /\ live' \subseteq Id
         /\ OneOwner'
         /\ Holds(v)' /\ \A w \in Var \ {v} : slot'[w] = slot[w]
<1>1. PICK i \in Id : /\ i \notin live
                      /\ slot' = [slot EXCEPT ![v] = i]
                      /\ live' = live \cup {i}
  BY DEF Make, New
<1>2. i # Null
  BY DEF Id, Null
<1>3. /\ slot'[v] = i /\ \A w \in Var \ {v} : slot'[w] = slot[w]
      /\ slot' \in [Var -> Id \cup {Null}] /\ live' \subseteq Id
  BY <1>1
<1>4. \A w \in Var : slot[w] # i
  BY <1>1, <1>2 DEF OneOwner, Owned
<1>5. live' = Owned'
  <2>1. Owned' = Owned \cup {i}
    BY <1>2, <1>3, Zenon DEF Owned, Holds
  <2> QED BY <1>1, <2>1 DEF OneOwner
<1>6. \A w, u \in Var : slot'[w] = slot'[u] /\ slot'[w] # Null => w = u
  <2> SUFFICES ASSUME NEW w \in Var, NEW u \in Var,
                      slot'[w] = slot'[u], slot'[w] # Null
               PROVE  w = u
    OBVIOUS
  <2>1. CASE w # v /\ u # v
    BY <1>3, <2>1 DEF OneOwner
  <2>2. CASE w = v \/ u = v
    BY <1>3, <1>4, <2>2
  <2> QED BY <2>1, <2>2
<1> QED BY <1>2, <1>3, <1>5, <1>6 DEF OneOwner, Holds

LEMMA GiveKeepsOwners ==
  ASSUME slot \in [Var -> Id \cup {Null}], live \subseteq Id, OneOwner,
         NEW v \in Var, NEW w \in Var, v # w, ~Holds(w), Give(v, w)
  PROVE  /\ slot' \in [Var -> Id \cup {Null}] /\ live' \subseteq Id
         /\ OneOwner'
         /\ ~Holds(v)' /\ (Holds(w)' <=> Holds(v))
         /\ \A u \in Var \ {v, w} : slot'[u] = slot[u]
<1>1. /\ slot'[v] = Null /\ slot'[w] = slot[v]
      /\ \A u \in Var \ {v, w} : slot'[u] = slot[u]
      /\ slot' \in [Var -> Id \cup {Null}] /\ live' = live
  BY DEF Give
<1>2. Owned' = Owned
  <2>1. ASSUME NEW x PROVE x \in Owned' <=> x \in Owned
    <3>1. ASSUME NEW u \in Var, x = slot'[u], x # Null
          PROVE  \E t \in Var : x = slot[t]
      <4>1. CASE u = w
        BY <1>1, <3>1, <4>1
      <4>2. CASE u # w
        BY <1>1, <3>1, <4>2
      <4> QED BY <4>1, <4>2
    <3>2. ASSUME NEW u \in Var, x = slot[u], x # Null
          PROVE  \E t \in Var : x = slot'[t]
      <4>1. CASE u = v
        BY <1>1, <3>2, <4>1
      <4>2. CASE u # v
        BY <1>1, <3>2, <4>2 DEF Holds
      <4> QED BY <4>1, <4>2
    <3> QED BY <3>1, <3>2 DEF Owned
  <2> QED BY <2>1, Zenon
<1>3. \A t, u \in Var : slot'[t] = slot'[u] /\ slot'[t] # Null => t = u
  <2> SUFFICES ASSUME NEW t \in Var, NEW u \in Var,
                      slot'[t] = slot'[u], slot'[t] # Null
               PROVE  t = u
    OBVIOUS
  <2>1. t # v /\ u # v
    BY <1>1
  <2>2. CASE t # w /\ u # w
    BY <1>1, <2>1, <2>2 DEF OneOwner
  <2>3. CASE t = w /\ u # w
    BY <1>1, <2>1, <2>3 DEF OneOwner
  <2>4. CASE t # w /\ u = w
    BY <1>1, <2>1, <2>4 DEF OneOwner
  <2> QED BY <2>2, <2>3, <2>4
<1> QED BY <1>1, <1>2, <1>3 DEF OneOwner, Holds

LEMMA ReleaseKeepsOwners ==
  ASSUME slot \in [Var -> Id \cup {Null}], live \subseteq Id, OneOwner,
         NEW v \in Var, Holds(v), Release(v)
  PROVE  /\ slot' \in [Var -> Id \cup {Null}] /\ live' \subseteq Id
         /\ OneOwner'
         /\ ~Holds(v)' /\ \A w \in Var \ {v} : slot'[w] = slot[w]
<1>1. /\ slot'[v] = Null /\ \A w \in Var \ {v} : slot'[w] = slot[w]
      /\ slot' \in [Var -> Id \cup {Null}] /\ live' = live \ {slot[v]}
  BY DEF Release
<1>2. Owned' = Owned \ {slot[v]}
  <2>1. ASSUME NEW x PROVE x \in Owned' <=> x \in Owned /\ x # slot[v]
    <3>1. ASSUME NEW u \in Var, x = slot'[u], x # Null
          PROVE  x \in Owned /\ x # slot[v]
      <4>1. u # v /\ x = slot[u]
        BY <1>1, <3>1
      <4> QED BY <3>1, <4>1 DEF OneOwner, Owned
    <3>2. ASSUME NEW u \in Var, x = slot[u], x # Null, x # slot[v]
          PROVE  x \in Owned'
      <4>1. x = slot'[u]
        BY <1>1, <3>2
      <4> QED BY <3>2, <4>1 DEF Owned
    <3> QED BY <3>1, <3>2 DEF Owned
  <2> QED BY <2>1, Zenon
<1>3. \A w, u \in Var : slot'[w] = slot'[u] /\ slot'[w] # Null => w = u
  <2> SUFFICES ASSUME NEW w \in Var, NEW u \in Var,
                      slot'[w] = slot'[u], slot'[w] # Null
               PROVE  w = u
    OBVIOUS
  <2>1. w # v /\ u # v
    BY <1>1
  <2> QED BY <1>1, <2>1 DEF OneOwner
<1> QED BY <1>1, <1>2, <1>3 DEF OneOwner, Holds

\* What is released is needed by nothing that is still there.
LEMMA LastIsNotNeeded ==
  ASSUME NEW S, NEW v \in Var, Last(S, v),
         program \in {"rl_controller", "onnx_node", "onnx_test"}
  PROVE  /\ v = "env" /\ "session" \in S => ~Holds("session")
         /\ v = "obs" /\ "input" \in S => ~Holds("input")
<1>1. /\ Declared["env"] = 1 /\ Declared["session"] \in {2, 3}
      /\ Declared["obs"] = 4 /\ Declared["input"] = 6
  BY DEF Declared, Var, Member, Local, Temporary
<1>2. ASSUME v = "env", "session" \in S, Holds("session") PROVE FALSE
  <2>1. Declared["session"] <= Declared["env"]
    BY <1>2 DEF Last, Holds
  <2> QED BY <1>1, <2>1
<1>3. ASSUME v = "obs", "input" \in S, Holds("input") PROVE FALSE
  <2>1. Declared["input"] <= Declared["obs"]
    BY <1>3 DEF Last, Holds
  <2> QED BY <1>1, <2>1
<1> QED BY <1>2, <1>3

-----------------------------------------------------------------------------
(***************************************************************************)
(* The steps.                                                              *)
(***************************************************************************)
\* What a call makes, and for whom.
Makes(c, v) ==
  \/ c = 1 /\ v = "making"
  \/ c = 3 /\ v = "options"
  \/ c = 5 /\ v = "session"
  \/ c = 6 /\ v = "obs"
  \/ c = 7 /\ v = "mem"
  \/ c = 8 /\ v = "input"
  \/ c = 9 /\ v = "outputs"

LEMMA OwnerOfCall ==
  /\ Owner[1] = "making" /\ Owner[3] = "options" /\ Owner[5] = "session"
  /\ Owner[6] = "obs" /\ Owner[7] = "mem" /\ Owner[8] = "input"
  /\ Owner[9] = "outputs"
BY DEF Owner, Call

LEMMA CallMakes ==
  ASSUME CallSucceeds, at \in {1, 3, 5, 6, 7, 8, 9}
  PROVE  \E v \in Var : Makes(at, v) /\ Make(v)
<1>1. Name[at] # "SetLanguageProjection"
  BY DEF Name, Call
<1>2. ASSUME NEW v \in Var, Owner[at] = v, v # "none", Makes(at, v)
      PROVE  \E w \in Var : Makes(at, w) /\ Make(w)
  <2>1. Make(Owner[at])
    BY <1>1, <1>2 DEF CallSucceeds
  <2> QED BY <1>2, <2>1
<1>3. CASE at = 1
  BY <1>2, <1>3, OwnerOfCall DEF Makes, Var, Temporary
<1>4. CASE at = 3
  BY <1>2, <1>4, OwnerOfCall DEF Makes, Var, Member
<1>5. CASE at = 5
  BY <1>2, <1>5, OwnerOfCall DEF Makes, Var, Member
<1>6. CASE at = 6
  BY <1>2, <1>6, OwnerOfCall DEF Makes, Var, Local
<1>7. CASE at = 7
  BY <1>2, <1>7, OwnerOfCall DEF Makes, Var, Local
<1>8. CASE at = 8
  BY <1>2, <1>8, OwnerOfCall DEF Makes, Var, Local
<1>9. CASE at = 9
  BY <1>2, <1>9, OwnerOfCall DEF Makes, Var, Local
<1> QED BY <1>3, <1>4, <1>5, <1>6, <1>7, <1>8, <1>9

LEMMA MadeOneMore ==
  ASSUME NEW v \in Var, at \in 1 .. 10, at' = at + 1, Makes(at, v),
         MadeSoFar, ~Holds("status"),
         Holds(v)', \A w \in Var \ {v} : slot'[w] = slot[w]
  PROVE  MadeSoFar' /\ ~Holds("status")'
BY DEF MadeSoFar, Makes, Holds, Var, Member, Local, Temporary

LEMMA CallSucceedsIInv ==
  ASSUME IInv, CallSucceeds
  PROVE  IInv'
<1>1. /\ mode = "running" /\ at \in 1 .. 10 /\ at' = at + 1
      /\ mode' = IF at = 5 /\ program # "onnx_test" THEN "idle" ELSE "running"
      /\ program' = program
  BY DEF CallSucceeds, Call
<1>2. /\ slot \in [Var -> Id \cup {Null}] /\ live \subseteq Id /\ OneOwner
      /\ MadeSoFar /\ ~Holds("status")
      /\ program \in {"rl_controller", "onnx_node", "onnx_test"}
  BY <1>1 DEF IInv, TypeOK, WhereWeAre
<1> USE DEF Var, Member, Local, Temporary
<1>3. CASE at \in {1, 3, 5, 6, 7, 8, 9}
  <2>1. PICK v \in Var : Makes(at, v) /\ Make(v)
    BY <1>3, CallMakes
  <2>2. ~Holds(v)
    BY <1>2, <2>1 DEF MadeSoFar, Makes, Holds
  <2>3. /\ slot' \in [Var -> Id \cup {Null}] /\ live' \subseteq Id
        /\ OneOwner'
        /\ Holds(v)' /\ \A w \in Var \ {v} : slot'[w] = slot[w]
    BY <1>2, <2>1, <2>2, MakeKeepsOwners
  <2>4. TypeOK'
    BY <1>1, <1>2, <2>3 DEF TypeOK
  <2>5. MadeSoFar' /\ ~Holds("status")'
    BY <1>1, <1>2, <2>1, <2>3, MadeOneMore
  <2>6. NeededOutlive'
    BY <1>1, <2>5 DEF MadeSoFar, NeededOutlive
  <2>7. mode' = "idle" => \A w \in Var : (Holds(w) <=> w \in Member)'
    BY <1>1, <2>5 DEF MadeSoFar
  <2>8. WhereWeAre'
    BY <1>1, <2>5, <2>7 DEF WhereWeAre
  <2> QED BY <2>3, <2>4, <2>6, <2>8 DEF IInv
<1>4. CASE at = 2
  <2>1. Give("making", "env")
    BY <1>4 DEF CallSucceeds, Owner, Name, Call
  <2>2. Holds("making") /\ ~Holds("env")
    BY <1>2, <1>4 DEF MadeSoFar
  <2>3. /\ slot' \in [Var -> Id \cup {Null}] /\ live' \subseteq Id
        /\ OneOwner' /\ ~Holds("making")' /\ Holds("env")'
        /\ \A u \in Var \ {"making", "env"} : slot'[u] = slot[u]
    BY <1>2, <2>1, <2>2, GiveKeepsOwners
  <2>4. TypeOK'
    BY <1>1, <1>2, <2>3 DEF TypeOK
  <2>5. MadeSoFar' /\ ~Holds("status")'
    BY <1>1, <1>2, <1>4, <2>3 DEF MadeSoFar, Holds
  <2>6. NeededOutlive'
    BY <1>1, <2>5 DEF MadeSoFar, NeededOutlive
  <2>7. WhereWeAre'
    BY <1>1, <1>4, <2>5 DEF WhereWeAre
  <2> QED BY <2>3, <2>4, <2>6, <2>7 DEF IInv
<1>5. CASE at \in {4, 10}
  <2>1. UNCHANGED <<slot, live>>
    BY <1>5 DEF CallSucceeds, Owner, Name, Call
  <2>2. TypeOK' /\ OneOwner'
    BY <1>1, <1>2, <2>1 DEF TypeOK, OneOwner, Owned
  <2>3. MadeSoFar' /\ ~Holds("status")'
    BY <1>1, <1>2, <1>5, <2>1 DEF MadeSoFar, Holds
  <2>4. NeededOutlive'
    BY <1>1, <2>3 DEF MadeSoFar, NeededOutlive
  <2>5. WhereWeAre'
    BY <1>1, <1>5, <2>3 DEF WhereWeAre
  <2> QED BY <2>2, <2>4, <2>5 DEF IInv
<1> QED BY <1>1, <1>3, <1>4, <1>5

LEMMA CallFailsIInv ==
  ASSUME IInv, CallFails
  PROVE  IInv'
<1>1. /\ mode = "running" /\ at \in Call /\ at # 6
      /\ Make("status")
      /\ mode' \in {"unwinding", "terminated"}
      /\ mode' = "unwinding" => program = "rl_controller"
      /\ program' = program /\ at' = at
  BY DEF CallFails, Name, Call
<1>2. /\ slot \in [Var -> Id \cup {Null}] /\ live \subseteq Id /\ OneOwner
      /\ MadeSoFar /\ ~Holds("status") /\ NeededOutlive
      /\ program \in {"rl_controller", "onnx_node", "onnx_test"}
  BY <1>1 DEF IInv, TypeOK, WhereWeAre
<1> USE DEF Var, Member, Local, Temporary
<1>3. /\ slot' \in [Var -> Id \cup {Null}] /\ live' \subseteq Id
      /\ OneOwner'
      /\ \A w \in Var \ {"status"} : slot'[w] = slot[w]
  BY <1>1, <1>2, MakeKeepsOwners
<1>4. TypeOK' /\ NeededOutlive'
  BY <1>1, <1>2, <1>3 DEF TypeOK, NeededOutlive, Holds, Call
<1>5. ASSUME Scope' # Var PROVE \A v \in Member : Holds(v)'
  <2>1. at > 5
    BY <1>1, <1>5 DEF Scope, SetUp, Call
  <2>2. Holds("env") /\ Holds("session") /\ Holds("options")
    BY <1>1, <1>2, <2>1 DEF MadeSoFar, Call
  <2> QED BY <1>3, <2>2 DEF Holds
<1>6. WhereWeAre'
  BY <1>1, <1>5 DEF WhereWeAre
<1> QED BY <1>3, <1>4, <1>6 DEF IInv

\* One destructor.
LEMMA ReleaseIInv ==
  ASSUME IInv, NEW S \in SUBSET Var, NEW v \in S, Last(S, v), Release(v),
         mode \in {"unwinding", "closing"}, UNCHANGED <<mode, program, at>>,
         mode = "unwinding" => S = Scope,
         S = Var \/ S = Local \cup Temporary
  PROVE  IInv'
<1> USE DEF Var, Member, Local, Temporary
<1>1. /\ slot \in [Var -> Id \cup {Null}] /\ live \subseteq Id /\ OneOwner
      /\ program \in {"rl_controller", "onnx_node", "onnx_test"}
      /\ NeededOutlive
  BY DEF IInv, TypeOK
<1>2. /\ slot' \in [Var -> Id \cup {Null}] /\ live' \subseteq Id
      /\ OneOwner'
      /\ ~Holds(v)' /\ \A w \in Var \ {v} : slot'[w] = slot[w]
  <2>1. Holds(v) /\ v \in Var
    BY DEF Last, Holds
  <2> QED BY <1>1, <2>1, ReleaseKeepsOwners
<1>3. TypeOK'
  BY <1>2 DEF IInv, TypeOK
<1>4. NeededOutlive'
  <2>1. /\ v = "env" => ~Holds("session")
        /\ v = "obs" => ~Holds("input")
    BY <1>1, LastIsNotNeeded
  <2> QED BY <1>1, <1>2, <2>1 DEF NeededOutlive, Holds
<1>5. WhereWeAre'
  <2>1. Scope' = Scope
    BY DEF Scope
  <2>2. ASSUME mode = "unwinding", Scope # Var
        PROVE  \A w \in Member : Holds(w)'
    <3>1. \A w \in Member : Holds(w) /\ w # v
      BY <2>2 DEF IInv, WhereWeAre
    <3> QED BY <1>2, <3>1 DEF Holds
  <2> QED BY <2>1, <2>2 DEF WhereWeAre
<1> QED BY <1>2, <1>3, <1>4, <1>5 DEF IInv

LEMMA UnwindIInv ==
  ASSUME IInv, Unwind
  PROVE  IInv'
<1>1. mode = "unwinding" /\ UNCHANGED <<program, at>>
  BY DEF Unwind
<1>2. Scope = Var \/ Scope = Local \cup Temporary
  BY DEF Scope
<1>3. ASSUME NEW v \in Scope, Last(Scope, v), Release(v), UNCHANGED mode
      PROVE  IInv'
  <2>1. Scope \subseteq Var
    BY <1>2 DEF Var
  <2> QED BY <1>1, <1>2, <1>3, <2>1, ReleaseIInv
<1>4. CASE /\ Empty(Scope) /\ mode' = IF Scope = Var THEN "down" ELSE "idle"
           /\ UNCHANGED <<slot, live>>
  <2>1. TypeOK' /\ OneOwner' /\ NeededOutlive'
    BY <1>1, <1>4 DEF IInv, TypeOK, OneOwner, Owned, NeededOutlive, Holds
  <2>2. CASE Scope = Var
    BY <1>4, <2>1, <2>2 DEF IInv, WhereWeAre, Empty, Holds
  <2>3. CASE Scope # Var
    <3>1. \A v \in Member : Holds(v)
      BY <1>1, <2>3 DEF IInv, WhereWeAre
    <3>2. \A v \in Var : Holds(v) <=> v \in Member
      BY <1>2, <1>4, <2>3, <3>1
      DEF Empty, Holds, Var, Member, Local, Temporary
    <3>3. mode' = "idle" /\ \A v \in Var : (Holds(v) <=> v \in Member)'
      BY <1>4, <2>3, <3>2 DEF Holds
    <3> QED BY <2>1, <3>3 DEF IInv, WhereWeAre
  <2> QED BY <2>2, <2>3
<1> QED BY <1>3, <1>4 DEF Unwind

LEMMA DestroyIInv ==
  ASSUME IInv, Destroy
  PROVE  IInv'
<1>1. mode = "closing" /\ UNCHANGED <<program, at>>
  BY DEF Destroy
<1>2. ASSUME NEW v \in Var, Last(Var, v), Release(v), UNCHANGED mode
      PROVE  IInv'
  BY <1>1, <1>2, ReleaseIInv
<1>3. CASE Empty(Var) /\ mode' = "down" /\ UNCHANGED <<slot, live>>
  BY <1>1, <1>3 DEF IInv, TypeOK, OneOwner, Owned, NeededOutlive, WhereWeAre,
     Empty, Holds
<1> QED BY <1>2, <1>3 DEF Destroy

\* What starts or ends a function makes and releases nothing.
LEMMA ControlIInv ==
  ASSUME IInv, Start \/ Infer \/ InferEnds \/ Close
  PROVE  IInv'
<1> USE DEF Var, Member, Local, Temporary
<1>1. UNCHANGED <<program, slot, live>>
  BY DEF Start, Infer, InferEnds, Close
<1>2. OneOwner' /\ NeededOutlive'
  BY <1>1 DEF IInv, OneOwner, Owned, NeededOutlive, Holds
<1>3. TypeOK'
  BY <1>1 DEF IInv, TypeOK, Start, Infer, InferEnds, Close
<1>4. WhereWeAre'
  <2>1. CASE Start
    <3>1. mode' = "running" /\ at' = 1 /\ \A v \in Var : ~Holds(v)'
      BY <1>1, <2>1 DEF Start, IInv, WhereWeAre, Holds
    <3> QED BY <3>1 DEF WhereWeAre, MadeSoFar
  <2>2. CASE Infer
    <3>1. mode' = "running" /\ at' = 6
          /\ \A v \in Var : Holds(v)' <=> v \in Member
      BY <1>1, <2>2 DEF Infer, IInv, WhereWeAre, Holds
    <3> QED BY <3>1 DEF WhereWeAre, MadeSoFar
  <2>3. CASE InferEnds
    <3>1. mode' = "unwinding" /\ at = 11 /\ MadeSoFar
      BY <2>3 DEF InferEnds, IInv, WhereWeAre
    <3>2. \A v \in Member : Holds(v)'
      BY <1>1, <3>1 DEF MadeSoFar, Holds
    <3> QED BY <3>1, <3>2 DEF WhereWeAre
  <2>4. CASE Close
    BY <2>4 DEF Close, WhereWeAre
  <2> QED BY <2>1, <2>2, <2>3, <2>4
<1> QED BY <1>2, <1>3, <1>4 DEF IInv

LEMMA SpecIInv == Spec => []IInv
<1>1. Init => IInv
  BY DEF Init, IInv, TypeOK, OneOwner, Owned, NeededOutlive, WhereWeAre,
     Holds, Var, Member, Local, Temporary
<1>2. IInv /\ [Next]_vars => IInv'
  <2> SUFFICES ASSUME IInv, [Next]_vars PROVE IInv'
    OBVIOUS
  <2>1. CASE Rerun
    BY <2>1 DEF Rerun, IInv, TypeOK, OneOwner, Owned, NeededOutlive,
       WhereWeAre, Holds, Var, Member, Local, Temporary
  <2>2. CASE UNCHANGED vars
    BY <2>2 DEF vars, IInv, TypeOK, OneOwner, Owned, NeededOutlive,
       WhereWeAre, MadeSoFar, Scope, Holds
  <2> QED
    BY <2>1, <2>2, CallSucceedsIInv, CallFailsIInv, UnwindIInv, DestroyIInv,
       ControlIInv DEF Next
<1> QED BY <1>1, <1>2, PTL DEF Spec

-----------------------------------------------------------------------------
(***************************************************************************)
(* Nothing of onnxruntime is released twice and nothing is leaked, on any  *)
(* path through any of the three programs, whatever call fails.            *)
(***************************************************************************)
THEOREM OneOwnerHolds == Spec => []OneOwner
<1>1. IInv => OneOwner
  BY DEF IInv
<1> QED BY <1>1, SpecIInv, PTL

(***************************************************************************)
(* A session always has its environment, an input tensor its buffer, and a *)
(* call what it is given (rl_controller.cpp:303-305, onnx_test.cpp:6-31).    *)
(***************************************************************************)
THEOREM UsedWhileAliveHolds == Spec => []UsedWhileAlive
<1>1. IInv => UsedWhileAlive
  BY DEF IInv, WhereWeAre, MadeSoFar, NeededOutlive, UsedWhileAlive, Holds
<1> QED BY <1>1, SpecIInv, PTL

(***************************************************************************)
(* After a call that threw the plugin has what it had, and after a         *)
(* configure that threw it is all gone.                                    *)
(***************************************************************************)
THEOREM AllOrNothingHolds == Spec => []AllOrNothing
<1>1. IInv => AllOrNothing
  <2> SUFFICES ASSUME IInv PROVE AllOrNothing
    OBVIOUS
  <2>1. mode = "idle" => \A v \in Member : slot[v] # Null
    BY DEF IInv, WhereWeAre, Holds, Var
  <2>2. mode = "idle" => Empty(Local \cup Temporary)
    BY DEF IInv, WhereWeAre, Holds, Empty, Var, Member, Local, Temporary
  <2>3. mode = "down" => live = {}
    BY DEF IInv, WhereWeAre, Holds, OneOwner, Owned
  <2> QED BY <2>1, <2>2, <2>3 DEF AllOrNothing
<1> QED BY <1>1, SpecIInv, PTL
=============================================================================
