------------------------------- MODULE RcPause -------------------------------
(***************************************************************************)
(* How often a hardcore game may be paused (rc_client_can_pause, and the   *)
(* decay of its penalty in rc_client_do_frame).  Pausing soon after a      *)
(* pause makes the run before the next one longer; the counter that makes  *)
(* it wait is also the one that tells a pause asked for twice from two.    *)
(***************************************************************************)
EXTENDS Integers

CONSTANTS
  MinimumFrames,  \* RC_MINIMUM_UNPAUSED_FRAMES
  Multiplier,     \* RC_PAUSE_DECAY_MULTIPLIER
  LongestRun      \* five seconds of frames

ASSUME PauseAssumption ==
  MinimumFrames \in Nat \ {0} /\ Multiplier \in Nat \ {0, 1} /\ LongestRun \in Nat \ {0}

VARIABLES
  required,       \* state.required_unpaused_frames
  decay,          \* state.unpaused_frame_decay
  isHardcore,
  run,            \* history: frames since a pause was granted, at most the longest window
  owed            \* history: how many frames that pause cost

pauseVars == <<required, decay, isHardcore, run, owed>>

LongestWindow == (LongestRun + MinimumFrames) * Multiplier

PauseInit ==
  required = MinimumFrames /\ decay = 0 /\ isHardcore = TRUE /\ run = LongestWindow /\ owed = 0

NoFrameSince == decay = required * Multiplier
FramesRemaining == decay - required * (Multiplier - 1)

\* rc_client_can_pause, in hardcore
Allowed == NoFrameSince \/ FramesRemaining <= 0

\* Faulty variant: the next run is as long as the last.
CanPause_OldWindow ==
  LET longer == IF decay > 0 /\ required < LongestRun THEN required + MinimumFrames ELSE required
  IN /\ isHardcore
     /\ IF Allowed /\ ~NoFrameSince
        THEN required' = longer /\ decay' = required * Multiplier /\ run' = 0 /\ owed' = longer
        ELSE UNCHANGED <<required, decay, run, owed>>
     /\ UNCHANGED isHardcore

\* rc_client_can_pause: a pause that is granted is paid for by the frames that follow.
CanPause ==
  LET longer == IF decay > 0 /\ required < LongestRun THEN required + MinimumFrames ELSE required
  IN /\ isHardcore
     /\ IF Allowed /\ ~NoFrameSince
        THEN required' = longer /\ decay' = longer * Multiplier /\ run' = 0 /\ owed' = longer
        ELSE UNCHANGED <<required, decay, run, owed>>
     /\ UNCHANGED isHardcore

\* rc_client_do_frame
FrameDone ==
  LET halved == IF required \div 2 <= MinimumFrames THEN MinimumFrames ELSE required \div 2
      ends == decay = 1 /\ required > MinimumFrames
  IN /\ required' = IF ends THEN halved ELSE required
     /\ decay' = IF ends THEN halved * (Multiplier - 1) - 1 ELSE IF decay > 0 THEN decay - 1 ELSE 0
     /\ run' = IF run < LongestWindow THEN run + 1 ELSE run
     /\ UNCHANGED <<isHardcore, owed>>

\* In softcore a pause is always allowed, and costs nothing.
ToggleHardcore == isHardcore' = ~isHardcore /\ UNCHANGED <<required, decay, run, owed>>

PauseNext == CanPause \/ FrameDone \/ ToggleHardcore

PauseSpec == PauseInit /\ [][PauseNext]_pauseVars

-----------------------------------------------------------------------------
\* A pause is allowed just when none of its frames has run, or all those the last one costs have:
\* also while the penalty halves, grows or is at its limit (rc_client_can_pause).
PausesAreSpaced ==
  /\ Allowed <=> (run = 0 \/ run >= owed)
  /\ required \in MinimumFrames..(LongestRun + MinimumFrames - 1)
=============================================================================
