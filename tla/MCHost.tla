------------------------------ MODULE MCHost ------------------------------
(***************************************************************************)
(* The host's own parts, one at a time: they share no state and are called *)
(* from different threads, so that a behaviour of all of them is one of    *)
(* each.  `part` is the one that runs; the others stay as they began.      *)
(***************************************************************************)
EXTENDS HostAudio, HostPads, HostInput, HostMods, TLC

CONSTANTS m1, m2, m3, old, new

VARIABLE part

hostVars == <<part, audioVars, padVars, inputVars, modVars>>

MCScripts ==
    LET plug(at, pad) == [at |-> at, pad |-> pad, plug |-> TRUE]
        unplug(at, pad) == [at |-> at, pad |-> pad, plug |-> FALSE]
        press(at, pad, button, hold) == [at |-> at, pad |-> pad, button |-> button, hold |-> hold]
    IN  { \* plugged later, unplugged and plugged again within a frame; lines out of order
          [count |-> 2, from |-> 0, period |-> 0,
           plugs |-> <<unplug(5, 2), plug(2, 1), unplug(3, 1), plug(3, 1), unplug(1, 3)>>,
           presses |-> {press(1, 1, "a", 3), press(4, 2, "b", 2), press(3, 1, "start", 1)}],
          \* a loop of presses, with a hot-plug that is not repeated
          [count |-> 1, from |-> 2, period |-> 3,
           plugs |-> <<unplug(4, 1), plug(6, 1)>>,
           presses |-> {press(0, 1, "start", 1), press(2, 1, "a", 1), press(3, 1, "b", 2)}] }

MCReleases == { m1 :> old @@ m2 :> old, m1 :> new @@ m2 :> old @@ m3 :> new, m2 :> new }

MCRotations == {-33, -18, -16, -14, -7, -3, -2, -1, 1, 2, 3, 5, 6, 16, 31, 45}

\* What a part that does not run keeps.
AudioRests ==
    /\ device = FALSE /\ rate = 4 /\ requested = 0 /\ queued = 0 /\ virtualFrames = 0
    /\ looked = FALSE /\ since = 0 /\ ideal = 0
PadsRest ==
    /\ script = [count |-> 0, from |-> 0, period |-> 0, plugs |-> <<>>, presses |-> {}]
    /\ pads = {} /\ nextPlug = 1 /\ down = {} /\ padNow = 0 /\ updated = 0 /\ refused = FALSE
ModsRest ==
    /\ bundle = m2 :> new /\ folder = [m \in ModNames |-> Missing]
    /\ todo = {} /\ phase = "off" /\ trouble = FALSE

HostInit ==
    \/ part = "audio" /\ AudioInit /\ PadsRest /\ InputInit /\ ModsRest
    \/ part = "pads" /\ AudioRests /\ PadsInit /\ InputInit /\ ModsRest
    \/ part = "input" /\ AudioRests /\ PadsRest /\ InputInit /\ ModsRest
    \/ part = "mods" /\ AudioRests /\ PadsRest /\ InputInit /\ ModsInit

OfAudio(A) == part = "audio" /\ A /\ UNCHANGED <<part, padVars, inputVars, modVars>>

HostNext ==
    \/ OfAudio(AudioNext)
    \/ part = "pads" /\ PadsNext /\ UNCHANGED <<part, audioVars, inputVars, modVars>>
    \/ part = "input" /\ InputNext /\ UNCHANGED <<part, audioVars, padVars, modVars>>
    \/ part = "mods" /\ ModsNext /\ UNCHANGED <<part, audioVars, padVars, inputVars>>

\* AudioFairness, of the instances that have audio.
HostFairness ==
    /\ WF_hostVars(OfAudio(GetFramesRemaining))
    /\ SF_hostVars(OfAudio(Tick))
    /\ WF_hostVars(OfAudio(DevicePlays))

HostSpec == HostInit /\ [][HostNext]_hostVars /\ HostFairness

\* The types of all parts.
HostTypeOK == AudioTypeOK /\ PadsTypeOK /\ ModsTypeOK

\* See HostAudio; asked while the audio runs.
AudioGoesOn == part = "audio" => NeverStaysFull
===========================================================================
