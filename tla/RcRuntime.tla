------------------------------ MODULE RcRuntime ------------------------------
(***************************************************************************)
(* The runtime that owns achievements, leaderboards and rich presence      *)
(* (rcheevos/runtime.c), and its saved progress (runtime_progress.c).  The *)
(* client uses its lists and its progress; a host may use it whole.  What  *)
(* the conditions of a definition come to in a frame is an input.  A       *)
(* definition is a version of the text of an id: equal checksums mean      *)
(* equal texts.  Bytes, sizes and alignment of the buffer are left out: it *)
(* is a sequence of chunks.                                                *)
(***************************************************************************)
EXTENDS Integers, Sequences, SequencesExt, FiniteSetsExt

CONSTANTS Versions,                 \* definitions that parse; 0 is one that does not
          VariablesOf,              \* the names of the variables of each version of the script
          Target,                   \* hits that every Measured achievement needs
          MaxHits,                  \* bounds how far hits and values go
          Uses                      \* what an instance uses, to bound it: achievements,
                                    \* boards, scripts, inputs, unreadable ids, and whether it saves

\* The parser gives a variable one name, which is not the word of another kind.
ASSUME RuntimeAssumption ==
    /\ 0 \notin Versions
    /\ \A v \in Versions :
          /\ VariablesOf[v] \in Seq(Range(VariablesOf[v]))
          /\ Range(VariablesOf[v]) \cap {"flags", "value", "prior"} = {}
          /\ \A i, j \in DOMAIN VariablesOf[v] : VariablesOf[v][i] = VariablesOf[v][j] => i = j

VARIABLES uses,                     \* one of Uses
          triggers, lboards,        \* sequences of [id, md5, state, hits, measured, hasHits, invalid]
          rich,                     \* [md5, hits, vars]; md5 = 0 while there is no script
          buffer,                   \* what progress was saved: sequences of chunks
          events,                   \* raised by the last frame: pairs of an event and an id
          last                      \* history of the last call: what it found and did

runtimeVars == <<uses, triggers, lboards, rich, buffer, events, last>>

Unknown == -1                       \* RC_MEASURED_UNKNOWN
Unupdated == "unupdated"            \* while progress is read

Active(item) == item.state \notin {"inactive", "triggered", "disabled"}

NewItem(id, v) == [id |-> id, md5 |-> v, state |-> "waiting", hits |-> 0, measured |-> Unknown,
                   hasHits |-> FALSE, invalid |-> FALSE]

Put(t, state, hits, measured, hasHits) ==
    [id |-> t.id, md5 |-> t.md5, state |-> state, hits |-> hits, measured |-> measured,
     hasHits |-> hasHits, invalid |-> t.invalid]
InState(t, state) == Put(t, state, t.hits, t.measured, t.hasHits)

\* rc_reset_trigger, rc_reset_lboard: the value last told stays.
ResetItem(t) == Put(t, "waiting", 0, Unknown, FALSE)
ResetAll(list) == [i \in DOMAIN list |-> ResetItem(list[i])]

NoScript == [md5 |-> 0, hits |-> 0, vars |-> <<>>]
NothingDone == [act |-> "none"]

-----------------------------------------------------------------------------
(* Activation.                                                              *)

\* rc_runtime_deactivate_trigger_by_index: the last one takes its place.
Without(list, i) ==
    [k \in 1..(Len(list) - 1) |-> IF k = i THEN list[Len(list)] ELSE list[k]]

\* rc_runtime_activate_achievement, rc_runtime_activate_lboard: the same text again is a reset, a
\* new one replaces the old, which is gone even if the new one does not parse.
Activated(list, id, v) ==
    LET n == SelectInSeq(list, LAMBDA t : t.id = id)
        others == IF n = 0 THEN list ELSE Without(list, n)
    IN IF n # 0 /\ list[n].md5 = v THEN [list EXCEPT ![n] = ResetItem(@)]
       ELSE IF v \in Versions THEN Append(others, NewItem(id, v)) ELSE others

\* The loop goes on after the place that was filled again.
Dropped(id, list, i) == IF i <= Len(list) /\ list[i].id = id THEN Without(list, i) ELSE list
Deactivated(list, id) ==
    FoldLeft(LAMBDA l, i : Dropped(id, l, i), list, [i \in 1..Len(list) |-> i])

-----------------------------------------------------------------------------
(* A frame.                                                                 *)

\* The inputs: "hit", "idle", "pause", "prime", "reset", "fire".

\* rc_evaluate_trigger
Evaluated(t, in) ==
    LET to(state) == Put(t, state, t.hits, IF state = "paused" THEN t.measured ELSE t.hits, t.hasHits)
        cleared(state) == Put(t, state, 0, 0, FALSE)
    IN IF ~Active(t) THEN [t |-> t, ret |-> t.state]
       ELSE CASE in = "hit"   -> [t |-> Put(t, "active", t.hits + 1, t.hits + 1, TRUE), ret |-> "active"]
              [] in = "idle"  -> [t |-> to("active"), ret |-> "active"]
              [] in = "pause" -> [t |-> to("paused"), ret |-> "paused"]
              [] in = "prime" -> [t |-> to("primed"), ret |-> "primed"]
              [] in = "fire"  -> IF t.state = "waiting" THEN [t |-> ResetItem(t), ret |-> "waiting"]
                                 ELSE [t |-> to("triggered"), ret |-> "triggered"]
              [] OTHER -> IF ~t.hasHits THEN [t |-> cleared("active"), ret |-> "active"]
                          ELSE [t |-> cleared(IF t.state = "primed" THEN "active" ELSE t.state),
                                ret |-> "reset"]

Disabled(item) == [InState(item, "disabled") EXCEPT !.invalid = FALSE]

\* The events of one achievement, in their order.
EventsOf(old, t, ret) ==
    LET state == IF ret = "reset" THEN t.state ELSE ret
        says(event, condition) == IF condition THEN <<<<event, t.id>>>> ELSE <<>>
    IN says("reset", ret = "reset")
       \o says("progress", /\ t.measured # old.measured /\ old.measured # Unknown
                           /\ t.measured <= Target
                           /\ state \notin {"triggered", "inactive", "waiting"})
       \o says("unprimed", state # old.state /\ old.state = "primed")
       \o says(IF state = "active" THEN "activated" ELSE state,
               /\ state # old.state
               /\ \/ state \in {"triggered", "paused", "primed"}
                  \/ state = "active" /\ old.state \in {"waiting", "paused"})

\* rc_runtime_do_frame: the handler may deactivate an achievement when it is told that it
\* triggered.
OneTrigger(acc, i, ins, drops) ==
    LET old == acc.list[i]
        e == Evaluated(old, ins[old.id])
        now == [acc.list EXCEPT ![i] = e.t]
    IN IF i > Len(acc.list) THEN acc
       ELSE IF old.invalid
       THEN [list |-> [acc.list EXCEPT ![i] = Disabled(old)],
             events |-> Append(acc.events, <<"disabled", old.id>>),
             evaluated |-> Append(acc.evaluated, old.id)]
       ELSE [list |-> IF old.state # "triggered" /\ e.ret = "triggered" /\ old.id \in drops
                      THEN Deactivated(now, old.id) ELSE now,
             events |-> acc.events \o EventsOf(old, e.t, e.ret),
             evaluated |-> Append(acc.evaluated, old.id)]

OrderOf_Ascending(n) == [i \in 1..n |-> i]
OrderOf(n) == [i \in 1..n |-> n + 1 - i]

TriggersDone(ins, drops) ==
    FoldLeft(LAMBDA acc, i : OneTrigger(acc, i, ins, drops),
             [list |-> triggers, events |-> <<>>, evaluated |-> <<>>], OrderOf(Len(triggers)))

\* rc_evaluate_lboard and its events: hits are those of its three triggers and its value.
LboardStates(state) ==
    CASE state = "waiting"  -> {"waiting", "active"}
      [] state = "active"   -> {"active", "started", "triggered", "canceled"}
      [] state = "started"  -> {"started", "triggered", "canceled"}
      [] state \in {"canceled", "triggered"} -> {state, "active"}
      [] OTHER -> {state}

OneLboard(b, state, v) ==
    IF b.invalid
    THEN [b |-> Disabled(b), e |-> <<<<"disabled", b.id>>>>]
    ELSE LET news == state \in {"started", "triggered", "canceled"} /\ state # b.state
             updated == state = "started" /\ b.state = "started" /\ v # b.measured
         IN [b |-> Put(b, state, v, IF state = "started" THEN v ELSE b.measured, b.hasHits),
             e |-> IF news THEN <<<<state, b.id>>>>
                   ELSE IF updated THEN <<<<"updated", b.id>>>> ELSE <<>>]

\* ins is what the conditions of each achievement come to, drops those that the handler
\* deactivates, states what becomes of the boards and v their value.
FrameDone(ins, drops, v, states) ==
    LET ts == TriggersDone(ins, drops)
        bs == [i \in DOMAIN lboards |-> OneLboard(lboards[i], states[i], v)]
    IN /\ \A i \in DOMAIN lboards : states[i] \in LboardStates(lboards[i].state)
       /\ triggers' = ts.list
       /\ \A i \in DOMAIN triggers' : triggers'[i].hits <= MaxHits
       /\ lboards' = [i \in DOMAIN lboards |-> bs[i].b]
       /\ events' = ts.events \o FlattenSeq([i \in DOMAIN bs |-> bs[Len(bs) + 1 - i].e])
       /\ rich' = IF rich.md5 = 0 THEN rich
                  ELSE [md5 |-> rich.md5, hits |-> v, vars |-> [i \in DOMAIN rich.vars |-> v]]
       /\ last' = [act |-> "frame", found |-> {triggers[i].id : i \in DOMAIN triggers},
                   evaluated |-> ts.evaluated]
       /\ UNCHANGED <<uses, buffer>>

DoFrame ==
    \E ins \in [uses.achievements -> uses.inputs], drops \in SUBSET uses.achievements,
       v \in IF lboards = <<>> /\ rich.md5 = 0 THEN {0} ELSE 0..MaxHits :
    \E states \in [DOMAIN lboards -> UNION {LboardStates(lboards[i].state) : i \in DOMAIN lboards}] :
        FrameDone(ins, drops, v, states)

-----------------------------------------------------------------------------
(* Saved progress.                                                          *)

Saved(kind, chunks, t) ==
    IF ~Active(t) THEN chunks
    ELSE Append(chunks, [kind |-> kind, id |-> t.id, md5 |-> t.md5, state |-> t.state,
                         hits |-> t.hits, measured |-> t.measured])
ChunksOf(kind, list) == FoldLeft(LAMBDA chunks, t : Saved(kind, chunks, t), <<>>, list)

\* rc_runtime_progress_write_variables: the count, then four words for each.
VariableWords ==
    LET word(i, k) == CASE k = 0 -> [name |-> VariablesOf[rich.md5][i], v |-> 0]
                        [] k = 1 -> [name |-> "flags", v |-> 0]
                        [] k = 2 -> [name |-> "value", v |-> rich.vars[i]]
                        [] k = 3 -> [name |-> "prior", v |-> 0]
    IN [n \in 1..(4 * Len(rich.vars)) |-> word((n - 1) \div 4 + 1, (n - 1) % 4)]

\* rc_runtime_progress_serialize_internal
Serialized ==
    (IF rich.vars = <<>> THEN <<>>
     ELSE <<[kind |-> "variables", count |-> Len(rich.vars), words |-> VariableWords]>>)
    \o ChunksOf("achievement", triggers) \o ChunksOf("leaderboard", lboards)
    \o (IF rich.md5 = 0 THEN <<>> ELSE <<[kind |-> "rich", md5 |-> rich.md5, hits |-> rich.hits]>>)
    \o <<[kind |-> "done"]>>

\* rc_runtime_progress_read_achievement, _read_leaderboard: the item of the id, if it was not
\* updated yet and its text is the same.  What a leaderboard last told is not saved.
Reloaded(t, c) ==
    Put(t, c.state, c.hits, IF c.kind = "achievement" THEN c.measured ELSE t.measured, t.hasHits)
ReadInto_AnyText(list, c) ==
    LET n == SelectInSeq(list, LAMBDA t : t.id = c.id)
    IN IF n # 0 /\ list[n].state = Unupdated THEN [list EXCEPT ![n] = Reloaded(@, c)] ELSE list
ReadInto(list, c) ==
    LET n == SelectInSeq(list, LAMBDA t : t.id = c.id)
    IN IF n # 0 /\ list[n].state = Unupdated /\ list[n].md5 = c.md5
       THEN [list EXCEPT ![n] = Reloaded(@, c)] ELSE list

\* rc_runtime_progress_read_variables: a name that is not known any more is passed over, its other
\* words are not.
ReadVariable(names, words, acc) ==
    LET n == SelectInSeq(names, LAMBDA name : name = words[acc.at].name)
    IN IF n = 0 \/ n \in acc.read THEN [at |-> acc.at + 1, read |-> acc.read, vars |-> acc.vars]
       ELSE [at |-> acc.at + 4, read |-> acc.read \cup {n},
             vars |-> [acc.vars EXCEPT ![n] = words[acc.at + 2].v]]
ReadVariables(vars, names, c) ==
    LET done == FoldLeft(LAMBDA acc, k : ReadVariable(names, c.words, acc),
                         [at |-> 1, read |-> {}, vars |-> vars], [k \in 1..c.count |-> k])
    IN [n \in DOMAIN vars |-> IF n \in done.read THEN done.vars[n] ELSE 0]

ReadChunk(acc, c) ==
    [triggers |-> IF c.kind = "achievement" THEN ReadInto(acc.triggers, c) ELSE acc.triggers,
     lboards |-> IF c.kind = "leaderboard" THEN ReadInto(acc.lboards, c) ELSE acc.lboards,
     seen |-> acc.seen \/ c.kind = "rich",
     hits |-> IF c.kind = "rich" THEN IF c.md5 = rich.md5 THEN c.hits ELSE 0 ELSE acc.hits,
     vars |-> IF c.kind = "variables" /\ rich.vars # <<>>
              THEN ReadVariables(acc.vars, VariablesOf[rich.md5], c) ELSE acc.vars]

Marked(list) == [i \in DOMAIN list |-> IF Active(list[i]) THEN InState(list[i], Unupdated) ELSE list[i]]
Settled(list) == [i \in DOMAIN list |-> IF list[i].state = Unupdated THEN ResetItem(list[i]) ELSE list[i]]
ResetScript(r) == [md5 |-> r.md5, hits |-> 0, vars |-> [i \in DOMAIN r.vars |-> 0]]

\* rc_runtime_deserialize_progress_sized: a buffer that is cut short or changed on the way resets
\* everything.
Deserialized(chunks, whole) ==
    LET read == FoldLeft(ReadChunk, [triggers |-> Marked(triggers), lboards |-> Marked(lboards),
                                     seen |-> FALSE, hits |-> rich.hits, vars |-> rich.vars], chunks)
    IN IF whole
       THEN [triggers |-> Settled(read.triggers), lboards |-> Settled(read.lboards),
             rich |-> [md5 |-> rich.md5, hits |-> IF read.seen THEN read.hits ELSE 0, vars |-> read.vars]]
       ELSE [triggers |-> ResetAll(read.triggers), lboards |-> ResetAll(read.lboards),
             rich |-> ResetScript(rich)]

-----------------------------------------------------------------------------
(* Actions.                                                                 *)

RuntimeInit ==
    /\ uses \in Uses
    /\ triggers = <<>> /\ lboards = <<>> /\ rich = NoScript
    /\ buffer = <<>> /\ events = <<>> /\ last = NothingDone

Called == events' = <<>> /\ last' = NothingDone /\ UNCHANGED uses

ActivateAchievement(id, v) ==
    /\ triggers' = Activated(triggers, id, v)
    /\ Called /\ UNCHANGED <<lboards, rich, buffer>>

ActivateLboard(id, v) ==
    /\ lboards' = Activated(lboards, id, v)
    /\ Called /\ UNCHANGED <<triggers, rich, buffer>>

DeactivateAchievement(id) ==
    /\ triggers' = Deactivated(triggers, id)
    /\ Called /\ UNCHANGED <<lboards, rich, buffer>>

DeactivateLboard(id) ==
    /\ lboards' = Deactivated(lboards, id)
    /\ Called /\ UNCHANGED <<triggers, rich, buffer>>

\* A script that does not parse leaves the old one.
ActivateRichpresence(v) ==
    /\ rich' = IF v = rich.md5 THEN ResetScript(rich)
               ELSE IF v \in Versions
               THEN [md5 |-> v, hits |-> 0, vars |-> [i \in DOMAIN VariablesOf[v] |-> 0]]
               ELSE rich
    /\ Called /\ UNCHANGED <<triggers, lboards, buffer>>

\* rc_runtime_invalidate_address: those that read the address are disabled by the next frame.
InvalidateAddress(ids) ==
    LET marked(list) == [i \in DOMAIN list |-> [list[i] EXCEPT !.invalid = @ \/ list[i].id \in ids]]
    IN /\ triggers' = marked(triggers) /\ lboards' = marked(lboards)
       /\ Called /\ UNCHANGED <<rich, buffer>>

\* rc_runtime_validate_addresses: at once, together with those marked before.
ValidateAddresses(ids) ==
    LET bad(t) == t.invalid \/ t.id \in ids
        without(list) == [i \in DOMAIN list |-> IF bad(list[i]) THEN Disabled(list[i]) ELSE list[i]]
        told(list) == LET s == SelectSeq(Reverse(list), bad) IN [i \in DOMAIN s |-> <<"disabled", s[i].id>>]
    IN /\ ids # {}
       /\ triggers' = without(triggers) /\ lboards' = without(lboards)
       /\ events' = told(triggers) \o told(lboards) /\ last' = NothingDone
       /\ UNCHANGED <<uses, rich, buffer>>

ResetRuntime ==
    /\ triggers' = ResetAll(triggers) /\ lboards' = ResetAll(lboards) /\ rich' = ResetScript(rich)
    /\ Called /\ UNCHANGED buffer

Serialize ==
    /\ buffer' = Serialized
    /\ Called /\ UNCHANGED <<triggers, lboards, rich>>

Deserialize(whole, length) ==
    LET d == Deserialized(SubSeq(buffer, 1, length), whole)
    IN /\ buffer # <<>> /\ (whole => length = Len(buffer))
       /\ triggers' = d.triggers /\ lboards' = d.lboards /\ rich' = d.rich
       /\ events' = <<>>
       /\ last' = [act |-> "restore", whole |-> whole, triggers |-> triggers, lboards |-> lboards]
       /\ UNCHANGED <<uses, buffer>>

RuntimeNext ==
    \/ \E v \in Versions \cup {0} :
          \/ \E id \in uses.achievements : ActivateAchievement(id, v)
          \/ \E id \in uses.boards : ActivateLboard(id, v)
    \/ \E id \in uses.achievements : DeactivateAchievement(id)
    \/ \E id \in uses.boards : DeactivateLboard(id)
    \/ \E v \in uses.scripts \cup {0} : uses.scripts # {} /\ ActivateRichpresence(v)
    \/ \E ids \in SUBSET uses.unreadable : InvalidateAddress(ids) \/ ValidateAddresses(ids)
    \/ DoFrame \/ ResetRuntime \/ (uses.saves /\ Serialize)
    \/ \E whole \in BOOLEAN, length \in 0..Len(buffer) : Deserialize(whole, length)

RuntimeSpec == RuntimeInit /\ [][RuntimeNext]_runtimeVars

-----------------------------------------------------------------------------
\* A frame evaluates every achievement that it finds exactly once, also when the handler of an
\* event deactivates some while the list is walked (rc_runtime_do_frame).
EachOncePerFrame ==
    last.act = "frame" =>
        /\ \A id \in last.found :
              \E k \in DOMAIN last.evaluated : {n \in DOMAIN last.evaluated : last.evaluated[n] = id} = {k}
        /\ \A i, j \in DOMAIN triggers : triggers[i].id = triggers[j].id => i = j

\* Of an item that was running, what was saved; of one that was not, nothing changes.
AsSaved(kind, chunks, before, now) ==
    \A i \in DOMAIN before :
        LET c == {n \in DOMAIN chunks : /\ chunks[n].kind = kind
                                       /\ chunks[n].id = before[i].id
                                       /\ chunks[n].md5 = before[i].md5}
        IN CASE ~Active(before[i]) -> now[i] = before[i]
             [] Active(before[i]) /\ c = {} -> now[i].state = "waiting" /\ now[i].hits = 0
             [] OTHER -> LET n == CHOOSE n \in c : TRUE
                         IN now[i].state = chunks[n].state /\ now[i].hits = chunks[n].hits

VariablesAsSaved(chunks, script) ==
    LET words == IF chunks[1].kind = "variables" THEN chunks[1].words ELSE <<>>
        names == IF script.md5 = 0 THEN <<>> ELSE VariablesOf[script.md5]
        named == {k \in DOMAIN words : words[k].name \notin {"flags", "value", "prior"}}
    IN (\A k \in named : words[k].name \in Range(names)) =>
           \A k \in named, n \in DOMAIN names :
               names[n] = words[k].name => script.vars[n] = words[k + 2].v

\* Progress comes back as it was saved where the text is the same, anything else that was running
\* starts from nothing, and what was not running stays, whatever was activated, replaced or
\* deactivated in between; a variable that is still in the script keeps its value if all that were
\* saved still are (rc_runtime_deserialize_progress_sized).
RestoredAsSaved ==
    (last.act = "restore" /\ last.whole) =>
        /\ AsSaved("achievement", buffer, last.triggers, triggers)
        /\ AsSaved("leaderboard", buffer, last.lboards, lboards)
        /\ VariablesAsSaved(buffer, rich)
=============================================================================
