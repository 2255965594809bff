----------------------------- MODULE FlagPromise -----------------------------
(***************************************************************************)
(* What a feature flag service with a cache promises about the answers to  *)
(* "is this feature enabled for the tenant?".  A check may be answered     *)
(* with any value in the feature's window.  The window always has the      *)
(* current value; an older value may linger in it, and once it has left,   *)
(* only a write can bring it back.                                         *)
(***************************************************************************)
CONSTANTS Features, Flags

VARIABLES
    value,    \* the value of each feature according to the database
    window    \* the values a check of each feature may still be answered with

Init ==
    /\ value \in [Features -> Flags]
    /\ window = [f \in Features |-> {value[f]}]

\* Writes, and old values leaving a window, in any combination.
Next ==
    /\ value' \in [Features -> Flags]
    /\ window' \in [Features -> SUBSET Flags]
    /\ \A f \in Features :
          /\ value'[f] \in window'[f]
          /\ window'[f] \subseteq window[f] \cup {value'[f]}

Spec == Init /\ [][Next]_<<value, window>>

=============================================================================
