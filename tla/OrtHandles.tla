------------------------------ MODULE OrtHandles ------------------------------
(***************************************************************************)
(* The three programs that use onnxruntime and the C++ wrappers they use   *)
(* it through: rl_controller, onnx_node and onnx_test make the same calls  *)
(* in the same order.  Every object of the C API is owned by a wrapper     *)
(* (Ort::detail::Base), which releases it in its destructor.  Any call may *)
(* fail: the C API returns an OrtStatus, which the wrappers turn into an   *)
(* exception.  For the plugin, controller_server catches it, and drops the *)
(* plugin when it comes from configure; in the two others nothing does,    *)
(* and the process is terminated as it stands.                             *)
(***************************************************************************)
EXTENDS Integers

VARIABLES
  program,  \* which of the three
  mode,     \* what it is doing, see TypeOK
  at,       \* the next call
  slot,     \* what each variable owns
  live      \* the objects that were made and not released

vars == <<program, mode, at, slot, live>>

\* What may own something: env, session and options are members of the
\* classes and locals of onnx_test; making is a wrapper whose constructor
\* runs.  The buffer obs is no object of onnxruntime, but the input tensor
\* points into it.
Member == {"env", "session", "options"}
Local == {"obs", "mem", "input", "outputs"}
Temporary == {"making", "status"}
Var == Member \cup Local \cup Temporary

\* A mutant: env_ is declared after session_.
DeclaredEnvLast ==
  [v \in Var |->
    CASE v = "session" -> 1 [] v = "options" -> 2 [] v = "env" -> 3
      [] v = "obs" -> 4 [] v = "mem" -> 5 [] v = "input" -> 6
      [] v = "outputs" -> 7 [] v = "making" -> 8 [] v = "status" -> 9]

\* The order of the declarations: destructors run against it.
Declared ==
  [v \in Var |->
    CASE v = "env" -> 1
      [] v = "session" -> IF program = "onnx_test" THEN 3 ELSE 2
      [] v = "options" -> IF program = "onnx_test" THEN 2 ELSE 3
      [] v = "obs" -> 4 [] v = "mem" -> 5 [] v = "input" -> 6
      [] v = "outputs" -> 7 [] v = "making" -> 8 [] v = "status" -> 9]

\* The calls in the program's order.  The first five set up, the others are
\* one inference.
Call == 1 .. 10
SetUp == 1 .. 5

Name ==
  [c \in Call |->
    CASE c = 1 -> "CreateEnv" [] c = 2 -> "SetLanguageProjection"
      [] c = 3 -> "CreateSessionOptions" [] c = 4 -> "SetIntraOpNumThreads"
      [] c = 5 -> "CreateSession"
      [] c = 6 -> "obs" [] c = 7 -> "CreateCpuMemoryInfo"
      [] c = 8 -> "CreateTensorWithDataAsOrtValue" [] c = 9 -> "Run"
      [] c = 10 -> "GetTensorMutableData"]

\* The variable that owns what a call made.
Owner ==
  [c \in Call |->
    CASE c = 1 -> "making" [] c = 3 -> "options" [] c = 5 -> "session"
      [] c = 6 -> "obs" [] c = 7 -> "mem" [] c = 8 -> "input"
      [] c = 9 -> "outputs" [] OTHER -> "none"]

Null == 0
Id == 1 .. 9

TypeOK ==
  /\ program \in {"rl_controller", "onnx_node", "onnx_test"}
  /\ mode \in {"down", "running", "idle", "unwinding", "closing", "terminated"}
  /\ at \in 1 .. 11
  /\ slot \in [Var -> Id \cup {Null}]
  /\ live \subseteq Id

Init ==
  /\ program \in {"rl_controller", "onnx_node", "onnx_test"}
  /\ mode = "down" /\ at = 1
  /\ slot = [v \in Var |-> Null] /\ live = {}

Owned == {slot[v] : v \in Var} \ {Null}

-----------------------------------------------------------------------------
(***************************************************************************)
(* Making and releasing.                                                   *)
(***************************************************************************)

\* A new object has the first free address, one that was released before if
\* there is one: what still points there would be taken for its owner.
New(i) ==
  /\ i \in Id \ live
  /\ \A j \in Id \ live : i <= j

Make(v) ==
  \E i \in Id :
    New(i) /\ slot' = [slot EXCEPT ![v] = i] /\ live' = live \cup {i}

Give(v, w) ==
  slot' = [slot EXCEPT ![w] = slot[v], ![v] = Null] /\ UNCHANGED live

\* ~Base.
Release(v) ==
  slot' = [slot EXCEPT ![v] = Null] /\ live' = live \ {slot[v]}

\* The destructor that is next among the variables of a scope.
Last(S, v) ==
  /\ v \in S /\ slot[v] # Null
  /\ \A w \in S : slot[w] # Null => Declared[w] <= Declared[v]

Empty(S) == \A v \in S : slot[v] = Null

-----------------------------------------------------------------------------
(***************************************************************************)
(* The programs.                                                           *)
(***************************************************************************)
Start ==
  /\ mode = "down"
  /\ mode' = "running" /\ at' = 1
  /\ UNCHANGED <<program, slot, live>>

\* A call that makes an object, the one that ends the constructor of
\* Ort::Env, or one that makes nothing.
CallSucceeds ==
  /\ mode = "running" /\ at \in Call
  /\ CASE Owner[at] # "none" -> Make(Owner[at])
       [] Name[at] = "SetLanguageProjection" -> Give("making", "env")
       [] OTHER -> UNCHANGED <<slot, live>>
  /\ at' = at + 1
  /\ mode' = IF at = 5 /\ program # "onnx_test" THEN "idle" ELSE "running"
  /\ UNCHANGED program

\* A mutant: the OrtStatus is read and forgotten.
CallFailsForgetsStatus ==
  /\ mode = "running" /\ at \in Call /\ Name[at] # "obs"
  /\ \E i \in Id : New(i) /\ live' = live \cup {i}
  /\ mode' = IF program = "rl_controller" THEN "unwinding" ELSE "terminated"
  /\ UNCHANGED <<program, at, slot>>

\* ThrowOnError owns the status while the exception is made.
CallFails ==
  /\ mode = "running" /\ at \in Call /\ Name[at] # "obs"
  /\ Make("status")
  /\ mode' = IF program = "rl_controller" THEN "unwinding" ELSE "terminated"
  /\ UNCHANGED <<program, at>>

\* computeVelocityCommands, or the timer of onnx_node.
Infer ==
  /\ mode = "idle"
  /\ mode' = "running" /\ at' = 6
  /\ UNCHANGED <<program, slot, live>>

\* A mutant: the plugin outlives a configure that threw.
ScopeAlwaysLocal ==
  IF program = "onnx_test" THEN Var ELSE Local \cup Temporary

\* What the end of the function in progress, or the exception, destroys: a
\* plugin that could not be configured goes altogether.
Scope ==
  IF at \in SetUp \/ program = "onnx_test" THEN Var ELSE Local \cup Temporary

InferEnds ==
  /\ mode = "running" /\ at = 11
  /\ mode' = "unwinding"
  /\ UNCHANGED <<program, at, slot, live>>

Unwind ==
  /\ mode = "unwinding"
  /\ \/ \E v \in Scope : Last(Scope, v) /\ Release(v) /\ UNCHANGED mode
     \/ /\ Empty(Scope)
        /\ mode' = IF Scope = Var THEN "down" ELSE "idle"
        /\ UNCHANGED <<slot, live>>
  /\ UNCHANGED <<program, at>>

\* cleanup or shutdown: the object is destroyed.
Close ==
  /\ mode = "idle"
  /\ mode' = "closing"
  /\ UNCHANGED <<program, at, slot, live>>

Destroy ==
  /\ mode = "closing"
  /\ \/ \E v \in Var : Last(Var, v) /\ Release(v) /\ UNCHANGED mode
     \/ Empty(Var) /\ mode' = "down" /\ UNCHANGED <<slot, live>>
  /\ UNCHANGED <<program, at>>

\* The operating system takes everything back; the process is run again.
Rerun ==
  /\ mode = "terminated"
  /\ mode' = "down" /\ at' = 1
  /\ slot' = [v \in Var |-> Null] /\ live' = {}
  /\ UNCHANGED program

Next ==
  \/ Start \/ CallSucceeds \/ CallFails \/ Infer \/ InferEnds
  \/ Unwind \/ Close \/ Destroy \/ Rerun

Spec == Init /\ [][Next]_vars

-----------------------------------------------------------------------------
(***************************************************************************)
(* Every object has exactly one owner and every owner an object that was   *)
(* not released, at every step of every path: nothing is released twice,   *)
(* and what no variable owns any more has been released, so that a plugin  *)
(* that failed to configure, or a call that threw, leaves nothing behind.  *)
(***************************************************************************)
OneOwner ==
  /\ live = Owned
  /\ \A v, w \in Var : slot[v] = slot[w] /\ slot[v] # Null => v = w

(***************************************************************************)
(* Nothing is used after its release: a session has its environment until  *)
(* it is gone, an input tensor the buffer it points into, and a call has   *)
(* what it is given.                                                       *)
(***************************************************************************)
UsedWhileAlive ==
  /\ slot["session"] # Null => slot["env"] # Null
  /\ slot["input"] # Null => slot["obs"] # Null
  /\ mode = "running" /\ at = 9 =>
       \A v \in {"env", "session", "mem", "input"} : slot[v] # Null
  /\ mode = "running" /\ at = 10 => slot["outputs"] # Null

(***************************************************************************)
(* The plugin is ready again after a call that threw, with the session it  *)
(* had, and is all gone after a configure that threw.                      *)
(***************************************************************************)
AllOrNothing ==
  /\ mode = "idle" => \A v \in Member : slot[v] # Null
  /\ mode = "idle" => Empty(Local \cup Temporary)
  /\ mode = "down" => live = {}
=============================================================================
