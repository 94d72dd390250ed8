----------------------------- MODULE LatchedTopic -----------------------------
(***************************************************************************)
(* scripts/urdf_publisher.py: /robot_description is published once, from   *)
(* the constructor, and the node then only spins.  Who gets it depends on  *)
(* the order of the publication, of the subscriptions, and of the          *)
(* discovery between the two, which is the middleware's: a transient-local *)
(* publisher of depth 1 gives its last message to a transient-local reader *)
(* that it discovers later, a volatile reader only gets what is published  *)
(* after it was discovered.  The publisher may die and be started again,   *)
(* with another URDF installed in between.                                 *)
(***************************************************************************)
EXTENDS Integers

CONSTANTS
  Reader,       \* the subscriptions to /robot_description
  Durable,      \* those that ask for TRANSIENT_LOCAL
  MAX_VERSION   \* of the installed URDF: a bound of the model

ASSUME LatchedAssumption == Durable \subseteq Reader /\ MAX_VERSION \in Nat

None == -1
Version == 0 .. MAX_VERSION

VARIABLES
  installed,  \* version of urdf/ict_bot.urdf in the package's share directory
  node,       \* the publisher: "down", "opened" its topic, or "spinning"
  kept,       \* the message its history keeps
  joined,     \* readers that exist
  matched,    \* readers that the publisher has discovered
  coming,     \* the message on its way to a reader
  got         \* the last message a reader took

vars == <<installed, node, kept, joined, matched, coming, got>>

Init ==
  /\ installed = 0 /\ node = "down" /\ kept = None
  /\ joined = {} /\ matched = {}
  /\ coming = [s \in Reader |-> None] /\ got = [s \in Reader |-> None]

Install ==
  /\ installed < MAX_VERSION
  /\ installed' = installed + 1
  /\ UNCHANGED <<node, kept, joined, matched, coming, got>>

\* create_publisher.
Open ==
  /\ node = "down"
  /\ node' = "opened"
  /\ UNCHANGED <<installed, kept, joined, matched, coming, got>>

\* Reads the file and publishes it.
Publish ==
  /\ node = "opened"
  /\ node' = "spinning"
  /\ kept' = installed
  /\ coming' = [s \in Reader |-> IF s \in matched THEN installed ELSE coming[s]]
  /\ UNCHANGED <<installed, joined, matched, got>>

\* Ctrl-C, a crash, or an exception of the constructor because the file is
\* not there.  What was on its way may be lost.
Stop ==
  /\ node # "down"
  /\ node' = "down" /\ kept' = None /\ matched' = {}
  /\ \E lost \in SUBSET Reader :
       coming' = [s \in Reader |-> IF s \in lost THEN None ELSE coming[s]]
  /\ UNCHANGED <<installed, joined, got>>

Join(s) ==
  /\ s \notin joined
  /\ joined' = joined \cup {s}
  /\ UNCHANGED <<installed, node, kept, matched, coming, got>>

Leave(s) ==
  /\ s \in joined
  /\ joined' = joined \ {s} /\ matched' = matched \ {s}
  /\ coming' = [coming EXCEPT ![s] = None]
  /\ got' = [got EXCEPT ![s] = None]
  /\ UNCHANGED <<installed, node, kept>>

\* A mutant: the publisher is volatile.
DiscoverVolatile(s) ==
  /\ node # "down" /\ s \in joined \ matched
  /\ matched' = matched \cup {s}
  /\ UNCHANGED <<installed, node, kept, joined, coming, got>>

Discover(s) ==
  /\ node # "down" /\ s \in joined \ matched
  /\ matched' = matched \cup {s}
  /\ coming' = IF kept # None /\ s \in Durable
               THEN [coming EXCEPT ![s] = kept] ELSE coming
  /\ UNCHANGED <<installed, node, kept, joined, got>>

Receive(s) ==
  /\ coming[s] # None
  /\ got' = [got EXCEPT ![s] = coming[s]]
  /\ coming' = [coming EXCEPT ![s] = None]
  /\ UNCHANGED <<installed, node, kept, joined, matched>>

Next ==
  \/ Install \/ Open \/ Publish \/ Stop
  \/ \E s \in Reader : Join(s) \/ Leave(s) \/ Discover(s) \/ Receive(s)

Spec == Init /\ [][Next]_vars

\* Discovery and reliable delivery end; nothing else is owed.
Delivery(s) == WF_vars(Discover(s)) /\ WF_vars(Receive(s))

FairSpec == Spec /\ \A s \in Reader : Delivery(s)

-----------------------------------------------------------------------------
(***************************************************************************)
(* A durable reader that stays gets what the publisher that stays has,     *)
(* whichever comes first: the single publication, the subscription or the  *)
(* discovery of the one by the other.                                      *)
(***************************************************************************)
LateReadersServed ==
  \A s \in Durable :
    s \in joined /\ node = "spinning"
      ~> (kept # None /\ got[s] = kept) \/ s \notin joined \/ node # "spinning"
=============================================================================
