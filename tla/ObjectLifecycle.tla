--------------------------- MODULE ObjectLifecycle ---------------------------
(***************************************************************************)
(* What the storage subsystem promises about an object, seen from outside: *)
(* its bytes appear once, become visible with a first file version, are    *)
(* shared by more versions, and are reclaimed in two phases, first cut off *)
(* from the catalogue and then deleted.  The object is never revived, and  *)
(* no version ever refers to an object that is not live.                   *)
(***************************************************************************)
EXTENDS Naturals

CONSTANT Objects

VARIABLES
    phase,  \* phase[o]: where object o is in its life
    refs    \* refs[o]: file versions that share object o

vars == <<phase, refs>>

Phases == {"absent", "staged", "live", "detached", "gone"}

Init ==
    /\ phase = [o \in Objects |-> "absent"]
    /\ refs = [o \in Objects |-> 0]

\* Bytes are published under the object's key; no version refers to them yet.
Stage(o) ==
    /\ phase[o] = "absent"
    /\ phase' = [phase EXCEPT ![o] = "staged"]
    /\ UNCHANGED refs

\* The object and its first version become visible together.
Admit(o) ==
    /\ phase[o] = "staged"
    /\ phase' = [phase EXCEPT ![o] = "live"]
    /\ refs' = [refs EXCEPT ![o] = 1]

\* Staged bytes are withdrawn by the compensation of a failed upload.
Withdraw(o) ==
    /\ phase[o] = "staged"
    /\ phase' = [phase EXCEPT ![o] = "gone"]
    /\ UNCHANGED refs

\* New versions of live objects, all of them at once.
Share(shared) ==
    /\ \A o \in shared : phase[o] = "live"
    /\ refs' = [o \in Objects |-> IF o \in shared THEN refs[o] + 1 ELSE refs[o]]
    /\ UNCHANGED phase

\* Versions disappear; the objects stay live until they are detached.
Release ==
    /\ refs' \in [Objects -> Nat]
    /\ \A o \in Objects : refs'[o] <= refs[o]
    /\ UNCHANGED phase

\* Objects without versions leave the catalogue; their bytes are still there.
Cut(orphans) ==
    /\ \A o \in orphans : phase[o] = "live" /\ refs[o] = 0
    /\ phase' = [o \in Objects |-> IF o \in orphans THEN "detached" ELSE phase[o]]
    /\ UNCHANGED refs

\* The bytes of a detached object are deleted.
Reclaim(o) ==
    /\ phase[o] = "detached"
    /\ phase' = [phase EXCEPT ![o] = "gone"]
    /\ UNCHANGED refs

Next ==
    \/ \E o \in Objects : Stage(o) \/ Admit(o) \/ Withdraw(o) \/ Reclaim(o)
    \/ \E objs \in SUBSET Objects : Share(objs) \/ Cut(objs)
    \/ Release

Spec == Init /\ [][Next]_vars
=============================================================================
