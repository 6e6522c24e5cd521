---------------------------- MODULE HostAudio ----------------------------
(***************************************************************************)
(* Audio output of the host (src/main/main.cpp): a queue of frames that    *)
(* SDL plays, or, without an audio device, a count that is drained by the  *)
(* clock whenever somebody looks at it.  The game makes more sound when    *)
(* get_frames_remaining is low, so this queue is what paces the game.      *)
(*                                                                         *)
(* Time is relative: `since` is the time since the last virtual_drain.     *)
(* Frames are counted in whole frames, `ideal` in fractions 1/Second.      *)
(***************************************************************************)
EXTENDS Naturals

CONSTANTS
    Second,     \* units of the clock in a second (1000 in the code)
    Rates,      \* sample rates the game asks for
    Batch,      \* frames in a batch of samples
    Full,       \* the game waits while this many frames remain
    MaxSince    \* bound: longest time between two looks at the queue

\* At least one frame goes by in every unit of the clock: the rates of the game are far
\* above 1000 Hz.  Below that a queue looked at too often would never drain.
ASSUME AudioAssumption ==
    /\ Second \in Nat \ {0} /\ Batch \in Nat \ {0} /\ Full \in Nat \ {0} /\ MaxSince \in Nat
    /\ Rates \subseteq Nat
    /\ \A r \in Rates : r >= Second

VARIABLES
    device,         \* g_audio_device # 0
    rate,           \* g_sample_rate
    requested,      \* g_requested_rate, 0 before the first call
    queued,         \* frames in SDL's queue
    virtualFrames,  \* g_virtual_frames
    looked,         \* g_virtual_last_ms # 0
    since,          \* now - g_virtual_last_ms
    ideal           \* history: 1/Second frames left on a device that plays without rounding

audioVars == <<device, rate, requested, queued, virtualFrames, looked, since, ideal>>

AudioTypeOK ==
    /\ device \in BOOLEAN /\ looked \in BOOLEAN
    /\ rate \in Rates /\ requested \in Rates \cup {0}
    /\ queued \in Nat /\ virtualFrames \in Nat /\ since \in Nat /\ ideal \in Nat

AudioInit ==
    /\ device = FALSE /\ looked = FALSE
    /\ rate \in Rates /\ requested = 0
    /\ queued = 0 /\ virtualFrames = 0 /\ since = 0 /\ ideal = 0

Less(a, b) == IF b >= a THEN 0 ELSE a - b

\* virtual_drain: the first look only starts the clock.
Drained_WholeSeconds == Less(virtualFrames, (since \div Second) * rate)     \* faulty variant
Drained_RoundsUp == Less(virtualFrames, ((since * rate) \div Second) + 1)   \* faulty variant
Drained_NoFloor == virtualFrames - ((since * rate) \div Second)            \* faulty variant
Drained == IF looked THEN Less(virtualFrames, (since * rate) \div Second) ELSE virtualFrames

\* get_frames_remaining.
Remaining == IF device THEN queued ELSE Drained

Looked ==
    /\ IF device THEN UNCHANGED <<looked, since>> ELSE looked' = TRUE /\ since' = 0

GetFramesRemaining ==
    /\ Looked
    /\ virtualFrames' = IF device THEN virtualFrames ELSE Drained
    /\ UNCHANGED <<device, rate, requested, queued, ideal>>

\* queue_samples, which looks at the queue first.  The game has seen that it is not full.
QueueSamples ==
    /\ Remaining < Full
    /\ Looked
    /\ IF device
       THEN queued' = queued + Batch /\ UNCHANGED <<virtualFrames, ideal>>
       ELSE /\ virtualFrames' = Drained + Batch
            /\ ideal' = ideal + Batch * Second
            /\ UNCHANGED queued
    /\ UNCHANGED <<device, rate, requested>>

\* reset_audio when SDL_OpenAudioDevice succeeds: what was queued is gone.
Opened(freq) ==
    /\ device' = TRUE /\ rate' = freq
    /\ queued' = 0 /\ virtualFrames' = 0 /\ ideal' = 0
    /\ UNCHANGED <<looked, since>>

\* reset_audio when it fails: the virtual queue goes on, and the time that nobody looked at
\* it yet will be charged at the new rate.
NotOpened(freq) ==
    /\ device' = FALSE /\ rate' = freq
    /\ queued' = 0
    /\ ideal' = IF device \/ freq < rate THEN ideal ELSE Less(ideal, since * (freq - rate))
    /\ UNCHANGED <<virtualFrames, looked, since>>

\* set_frequency.
SetFrequency(freq) ==
    /\ ~(device /\ freq = requested)
    /\ requested' = freq
    /\ Opened(freq) \/ NotOpened(freq)

Tick ==
    /\ since < MaxSince
    /\ since' = since + 1
    /\ ideal' = IF device THEN ideal ELSE Less(ideal, rate)
    /\ UNCHANGED <<device, rate, requested, queued, virtualFrames, looked>>

\* SDL plays from its queue, in chunks of its own.
DevicePlays ==
    /\ device /\ queued > 0
    /\ \E n \in 1..queued : queued' = queued - n
    /\ UNCHANGED <<device, rate, requested, virtualFrames, looked, since, ideal>>

AudioNext ==
    \/ GetFramesRemaining \/ QueueSamples
    \/ \E freq \in Rates : SetFrequency(freq)
    \/ Tick \/ DevicePlays

\* The game polls and time goes on whatever else happens; a device plays.
AudioFairness ==
    /\ WF_audioVars(GetFramesRemaining) /\ SF_audioVars(Tick) /\ WF_audioVars(DevicePlays)

AudioSpec == AudioInit /\ [][AudioNext]_audioVars

\* Without a device the game is never told of fewer frames than a real device that was given
\* the same frames would still have to play, at whatever times it looks and although every
\* look rounds: it never runs ahead of time.
NeverAheadOfTime == ~device => Drained * Second >= ideal

\* What makes it inductive: the time nobody looked at yet is already charged to the ideal.
Paced == ideal > 0 => /\ ~device /\ looked
                      /\ ideal + since * rate <= virtualFrames * Second

\* Whether there is a device or not, and however often it is looked at: the queue does not stay
\* full, so a game that waits for it goes on.
NeverStaysFull == []<>(Remaining < Full)
===========================================================================
