----------------------------- MODULE HostPads -----------------------------
(***************************************************************************)
(* Virtual pads driven by a script (update_virtual_pads of                 *)
(* src/main/main.cpp), the test aid for sessions with several players: pads *)
(* are plugged and unplugged, and buttons held, at times counted from the  *)
(* first frame.  A frame may come late, so that one update has to catch up *)
(* with several lines of the script.                                       *)
(***************************************************************************)
EXTENDS Naturals, FiniteSets, Sequences, SequencesExt

CONSTANTS
    Scripts,    \* [count, plugs, presses, from, period]; plugs in the order of the file
    MaxNow      \* bound: length of the session

VARIABLES
    script,     \* the script, with its plugs in order of time once it is loaded
    pads,       \* pads attached
    nextPlug,   \* index of the next line of `plugs`
    down,       \* <<pad, button>> held on an attached device
    padNow,     \* time since the first frame
    updated,    \* history: time after the last update, 0 before the first
    refused     \* history: SDL could not attach some pad

padVars == <<script, pads, nextPlug, down, padNow, updated, refused>>

PadsTypeOK ==
    /\ pads \subseteq 1..script.count
    /\ nextPlug \in 1..(Len(script.plugs) + 1)
    /\ \A held \in down : held[1] \in pads
    /\ padNow \in 0..MaxNow /\ updated \in 0..(padNow + 1) /\ refused \in BOOLEAN

InTime_FileOrder(plugs) == plugs        \* faulty variant: no sort

\* std::stable_sort by time: lines with the same time stay in the order of the file.
InTime(plugs) ==
    LET before(i, j) == plugs[i].at < plugs[j].at \/ (plugs[i].at = plugs[j].at /\ i < j)
        order == SetToSortSeq(DOMAIN plugs, before)
    IN  [k \in DOMAIN plugs |-> plugs[order[k]]]

\* A pad whose first line is a plug starts unplugged.
StartsPlugged(s, p) ==
    LET lines == {i \in DOMAIN s.plugs : s.plugs[i].pad = p}
    IN  lines = {} \/ ~s.plugs[CHOOSE i \in lines : \A j \in lines : i <= j].plug

\* load_vpad_script and the first call of update_virtual_pads.
PadsInit ==
    /\ \E s \in Scripts : script = [s EXCEPT !.plugs = InTime(s.plugs)]
    /\ pads = {p \in 1..script.count : StartsPlugged(script, p)}
    /\ nextPlug = 1 /\ down = {} /\ padNow = 0 /\ updated = 0 /\ refused = FALSE

\* The lines whose time has come: the loop stops at the first that is not due.
Due(now) ==
    {i \in nextPlug..Len(script.plugs) : \A j \in nextPlug..i : script.plugs[j].at <= now}

\* One line.  A pad that is plugged already, or not there, is left alone; `attach` is what SDL
\* answers when a pad is to be attached.
Apply(set, line, attach) ==
    IF line.pad > script.count \/ (line.plug /\ ~attach) THEN set
    ELSE IF line.plug THEN set \cup {line.pad} ELSE set \ {line.pad}

\* The time that decides about presses: from `from` on it runs in laps of `period`.  The first
\* lap needs no wrapping.
Wrapped(now) ==
    IF script.period > 0 /\ now >= script.from + script.period
    THEN script.from + ((now - script.from) % script.period) ELSE now

Pressed(now) ==
    {<<p.pad, p.button>> : p \in {q \in script.presses : q.at <= now /\ now < q.at + q.hold}}

\* update_virtual_pads, once a frame.  A pad attached here starts with all buttons released
\* and has them set at once; one that is detached takes its buttons with it.
Update(attach) ==
    LET due == Cardinality(Due(padNow))
        lines == SubSeq(script.plugs, nextPlug, nextPlug + due - 1)
    IN  /\ pads' = FoldLeft(LAMBDA set, line : Apply(set, line, attach), pads, lines)
        /\ nextPlug' = nextPlug + due
        /\ down' = {held \in Pressed(Wrapped(padNow)) : held[1] \in pads'}
        /\ updated' = padNow + 1
        /\ refused' = (refused \/ ~attach)
        /\ UNCHANGED <<script, padNow>>

PadTick ==
    /\ padNow < MaxNow
    /\ padNow' = padNow + 1
    /\ UNCHANGED <<script, pads, nextPlug, down, updated, refused>>

PadsNext == PadTick \/ \E attach \in BOOLEAN : Update(attach)

---------------------------------------------------------------------------
\* What the comment above load_vpad_script says of a script, without laps of a loop or lines
\* that are caught up with.

PluggedAt(p, now) ==
    LET lines == {i \in DOMAIN script.plugs :
                     script.plugs[i].pad = p /\ script.plugs[i].at <= now}
    IN  IF lines = {} THEN StartsPlugged(script, p)
        ELSE script.plugs[CHOOSE i \in lines : \A j \in lines : j <= i].plug

HeldAt(press, now) ==
    \/ press.at <= now /\ now < press.at + press.hold
    \/ /\ script.period > 0 /\ press.at >= script.from
       /\ \E lap \in 1..MaxNow :
             LET at == press.at + lap * script.period
             IN  at <= now /\ now < at + press.hold

\* After an update the pads that are attached are those that the last line about each of them
\* says (as long as SDL attaches what it is asked to), and exactly the buttons are down that
\* the script holds then, in whatever lap, also on a pad that was plugged in meanwhile.
PadsFollowScript ==
    updated = padNow + 1 =>
        /\ ~refused => pads = {p \in 1..script.count : PluggedAt(p, padNow)}
        /\ down = {<<p.pad, p.button>> :
                      p \in {q \in script.presses : q.pad \in pads /\ HeldAt(q, padNow)}}
===========================================================================
