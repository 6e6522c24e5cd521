# WWF No Mercy: Recompiled -- verification

This directory holds TLA+ models of *WWF No Mercy: Recompiled*, the TLC configurations
that check them and TLAPS proofs about them. `PROJECT.json` lists the components, the
runs, which lines of the source each definition translates, the hazards of the code, the
disagreements found and the theorems. Paths below are relative to `src/`; a file without a
directory is one of `src/ra/rcheevos/src` or its `rcheevos/`.

The program is a Nintendo 64 game recompiled to native code. Almost all of its own logic
that keeps state, runs concurrently and talks to the outside is the achievements client:
`src/ra/ra_client.cpp` (the host's threads and transport) on top of
`src/ra/rcheevos`, the library that logs in, loads the definitions of the game, evaluates
them every frame and sends unlocks. The rest is the host in `src/main/main.cpp` (audio,
pads, mods, start-up), glue to SDL and the renderer, and scripts.

## Inventory

### 1. Host threads and HTTP transport (`src/ra/ra_client.cpp`)

- **State**: the RDRAM pointer, the flag that the RA thread was started, two queues of
  HTTP jobs under one mutex, the flag that the worker was started.
- **Operations**: `notify_rdram` (any game thread that calls `osDriveRomInit`),
  `client_server_call`, `http_worker`, `drain_http_done`, the loop of `ra_thread`.
- **Interaction**: the RA thread runs all of rcheevos. It hands requests to the worker
  and calls rc_client's callbacks with the answers; a request whose URL cannot be cracked
  is answered inside the call that makes it.
- **Hard**: two game threads racing in `notify_rdram`; jobs that move between two queues
  and a worker with no lock in between; callbacks that make requests.
- **Correct when**: one RA thread, every request answered once, in order, at last.

### 2. Login and game loading (`rc_client.c`)

- **State**: `state.user`, `state.load`, `client->game`, the load states with their counts
  of outstanding requests, spectator mode, queued activations, scheduled pings.
- **Operations**: `begin_login`, `logout`, `begin_load_game`, `unload_game`,
  `abort_async`, `set_spectator_mode_enabled`, and the callbacks of the three requests.
- **Interaction**: two requests of a load are under way at once (sets and session), a load
  may wait for a login, an activation may be put off to the next frame.
- **Hard**: who frees a load state, when answers, aborts, unloads and other loads come in
  any order; parts of a load failing one after the other.
- **Correct when**: nothing is used after it was freed or freed twice, nothing leaks, every
  load reports once, and one that was given up never becomes the active game.

### 3. Unlocks, retries and the schedule (`rc_client.c`)

- **State**: one sorted list of scheduled callbacks (retries, ping, timer of the progress
  indicator), the retry count of each request, the connection state, scores and mastery.
- **Operations**: awarding, submitting, the callbacks of both, `rc_client_idle`, `logout`,
  `unload_game`.
- **Hard**: lost answers, back-off, answers that come when the game or the user has
  changed, two unlocks that fail at the same time, events that cancel out.
- **Correct when**: the list is sorted, a retry goes out on schedule, every unlock is
  recorded or refused, and the user is told of connection trouble and of its end.

### 4. Frames: indicators and leaderboard trackers (`rc_client.c`, `lboard.c`)

- **State**: public and runtime state of achievements and leaderboards, the list of
  trackers with reference counts, pending events, hardcore, encore, `waiting_for_reset`.
- **Operations**: `do_frame`, `reset`, `set_hardcore_enabled`, `deserialize_progress`,
  load and unload.
- **Hard**: what is on the screen must follow every way a state can change; trackers are
  shared, released and reused within a frame.
- **Correct when**: the screen shows the indicators of what is primed and the trackers of
  what is tracked, and events come in turn.

### 5. Requests, lists and pauses (`rc_client.c`)

- **State**: four slots for asynchronous handles, the hashes known and the media of the
  game, the sets with their achievements and leaderboards, the lists given to the runtime,
  the two counters that limit pauses.
- **Operations**: fetches of hash libraries, titles, games, progress and leaderboard
  entries; `begin_change_media`; `abort_async`, `destroy`; applying the server's unlocks,
  validating addresses, making the lists shown to a user; `can_pause`.
- **Hard**: an answer may come before the call that asked returns, after the request was
  aborted, after the game or the client is gone; blocks of memory are sized in one pass and
  filled in another; unlocks are found in a window that shrinks.
- **Correct when**: every request is heard of once, media belong to the game they were
  asked for, lists fit and are complete, nothing that cannot be read runs.

### 6. Evaluation of triggers (`trigger.c`, `condset.c`, `lboard.c`)

- **State**: state of the trigger, hit counts of its conditions, `has_hits`,
  `measured_value`, which groups are paused; within a frame, `rc_eval_state_t`.
- **Operations**: parsing sorts the conditions by class; `rc_evaluate_trigger` evaluates
  them; `rc_reset_trigger`.
- **Hard**: conditions are evaluated in another order than they are written in, some are
  skipped, and one record of flags and sums runs through all of them.
- **Correct when**: the result is what the definition says.

### 7. Memory references, conditions and values (`memref.c`, `operand.c`, `condition.c`, `value.c`)

- **State**: value, delta and prior of plain and of modified references, shared by every
  definition of the game; hit counts of the clauses of a value.
- **Operations**: parsing an operand finds or makes its reference; one update a frame;
  reading an operand; `rc_evaluate_value`, `rc_update_values`.
- **Hard**: references are shared by operands of different sizes; chains become references
  to references; comparisons have shortcuts; hits decide whether a clause counts.
- **Correct when**: an operand reads what it would read without sharing.

### 8. Rich presence, runtime and saved progress (`richpresence.c`, `runtime.c`, `runtime_progress.c`)

- **State**: lookup trees and displays, the lists of the runtime, the saved buffer.
- **Operations**: activation by checksum, deactivation (also from an event handler),
  the frame, serialisation into chunks, restoring into other definitions.
- **Hard**: lists change while they are walked; a lookup tree is rebalanced while ranges
  are joined; progress of one version is read by another.
- **Correct when**: each item is evaluated once a frame, a key is found in its range,
  progress is restored whole or reset.

### 9. Validation of definitions (`rc_validate.c`)

- **Operations**: `rc_validate_trigger`: ranges of chains, comparisons that cannot be true or
  false, pairs that conflict or are redundant, a bounded store of errors.
- **Hard**: intervals with underflow, a table of 36 pairs of comparisons with inversions.
- **Correct when**: what it says of a comparison is so in every memory.

### 10. The host's own parts (`src/main/main.cpp`)

- **Audio** (366): a device, or a virtual queue drained by the clock whenever somebody looks;
  it paces the game. Hard: rounding at each look, a device that comes and goes.
- **Virtual pads** (228): a script of plugs and presses. Hard: late frames, repetition.
- **Rotation for mods** (680): the d-pad turned and snapped to eighths.
- **Bundled mods** (630): copied at start-up. Hard: starts that are killed half way.

### Not modelled

| Part | State | Why not |
|---|---|---|
| requests and JSON (`rapi/`) | none kept | text in, structures out; the answers are inputs of the models |
| game identification (`rhash/`) | position of a parser | hashes of images, mostly of other consoles; the hash is an input of `RcLoad` and `RcRequests` |
| allocation, formats, tables (`alloc.c`, `format.c`, `consoleinfo.c`, `rc_compat.c`, `rc_util.c`) | buffers that only grow | pure functions and tables |
| start-up, texture packs, crash reports (`main.cpp`) | none after start | sequential I/O |
| mouse, keys latched for mods (`main.cpp`) | one SDL snapshot | reads of SDL state |
| camera for ray tracing (`src/game/raytracing.cpp`) | one latched matrix | floating-point arithmetic |
| game-side interface (`src/game/recomp_api.cpp`) | none | its one stateful call is `NotifyStore` of `RaHttp` |
| memory reads, watch list, test trigger (`ra_client.cpp`) | diagnostics | reads of RDRAM |
| `tools/`, `syms/`, `assets/`, `disasm/` | none | scripts and data of the developer |
| N64ModernRuntime, RT64, RecompFrontend | | submodules, their directories are empty |

Within modelled parts: memory that holds floats, failures of `malloc`, the summary of a
user's game and the labels of buckets, subsets loaded as games of their own, calls made from
inside an event handler (but for deactivation in `RcRuntime`), `allow_leaderboards_in_softcore`
(nothing sets it), and hit counts near 2^31 are left out.

## Modules

| Module | What it is |
|---|---|
| `RaTransport` | abstract: what rc_client may expect of its transport |
| `RaHttp` | component 1, at the granularity of its locks and atomics; theorems in `HostProofs` |
| `RcLoad`, `RcLoadProofs` | component 2; theorems |
| `RcUnlocks`, `RcUnlocksProofs` | component 3; theorems |
| `RcFrame`, `RcFrameProofs` | component 4; theorems |
| `Loops` | the rule by which loops over numbers and over sequences are proved |
| `RcRequests`, `RcLists`, `RcPause`, `RcLibraryProofs` | component 5; theorems about requests, lists and pauses |
| `RcTriggerMeaning` | abstract: what a definition means, condition by condition |
| `RcTrigger`, `RcTriggerProofs` | component 6; theorems |
| `RcTyped` | typed values of machine words, used by 7 to 9 |
| `RcOwnOperands` | reference: operands with records of their own, chains from left to right |
| `RcMemref`, `RcValue`, `RcEngineProofs` | component 7; a theorem about values |
| `RcRichPresence`, `RcRuntime`, `RcEngineProofs` | component 8; theorems about the runtime and its saved progress |
| `RcValidate`, `RcEngineProofs` | component 9, over the definitions that `RcMemref` parses; a theorem |
| `HostAudio`, `HostPads`, `HostInput`, `HostMods`, `HostProofs` | component 10; theorems about all but the pads, and about component 1 |
| `MC...` | constants of the instances TLC checks; `MCHost`, `MCRcEngine` and `MCRcLibrary` run several modules that share no state, one at a time |

The modules meet where the code's components do. `RaHttp` shows that calls into rc_client
never overlap unless one is made inside another, and that answers come once and in order;
`RcLoad` and `RcUnlocks` therefore make each call one action. `RcUnlocks` keeps requests in
order, as `RaTransport` promises; `RcLoad` and `RcRequests` let answers come in any order,
since they do not rely on more and a fetch refused on the spot does overtake. `RcFrame`
chooses among the verdicts that `RcTrigger` computes from comparisons, whose results
`RcMemref` computes from memory. `RcUnlocks` abstracts the frame to the calls that award,
submit and show progress; `RcLists` and `RcRuntime` take what an achievement comes to in a
frame as an input. `RcRequests` reduces a load to what a change of media meets of it.

The handlers of `RcLoad`, `RcFrame` and `RcRequests` are built from functions that call each
other. They are operators from a record of the whole state to the next, named for the C
functions and composed in the order of the code; `Becomes` turns the last into the next state.

Definitions called `..._Something` and commented as faulty variants are not part of any
specification. Each is a plausible mistake in the definition it is named for, and each
property is violated when one of them takes that definition's place.

### How the models correspond to the code

- **`RaHttp`**. A step is what happens between two shared accesses: the store, the
  compare-exchange and the creation of the thread in `notify_rdram` are three. The stack of
  callbacks is explicit, since a callback may make requests and a refused one calls back at
  once. An empty queue is a stutter of the worker. Bound: `MaxRequests`.
- **`RcLoad`**. A load state has the fields of `rc_client_load_state_t` that decide
  something. The hash iterator is the sequence of candidates. A reader of memory that
  is no longer there sets `fault`, and nothing follows. Each load and login call is made
  once; the server answers a fetch with a game, a game without sets, nothing known, or an
  error.
- **`RcUnlocks`**. Time is relative: the queue holds the seconds left, and `Tick` lets
  a second go by, between calls only. Idle is several steps, as it calls back into the
  rest. The server records an unlock or not, independently of whether the answer arrives.
  Bounds: `Failures`, the transient failures of each job.
- **`RcFrame`**. The pending flags live within a call, so the properties speak of the
  state between calls and of `outOfTurn`, a history of events that the screen was not
  ready for. The conditions are a choice among the states that `trigger.c` and `lboard.c`
  can lead to.
- **`RcRequests`**. A request is begun in two steps, so that its answer may come before
  the call returns. A list is the block that is built: its size from the first pass, and
  where each string of the second pass begins; a string is its length.
- **`RcLists`**. The order of the code is kept in `Activate`: addresses are validated, then
  achievements and leaderboards start, then the lists of the runtime are made. A list is
  computed as the code does, in the two passes of room and contents.
- **`RcPause`**. `decay` and `required` are the two counters of the code; `run` and `owed`
  are histories of what they stand for.
- **`RcTrigger`**. Truth of the comparisons is the input of a frame. `rc_eval_state_t` is
  the record `e`; the fields that belong to a group are set anew by `TestCondset`, `reset`
  and `hasHits` go on from group to group. Bound: `MaxHits`, for conditions without a target.
- **`RcMemref`**. Parsing is a function from the conditions as written to operands that
  refer to plain and modified references by their index, with the sharing of
  `rc_alloc_memref`; a frame updates both lists in order. A byte has two bits, so that masks,
  halves, bit counts, BCD and byte order stay apart and memories can be enumerated
  (`HalfBits`). `RcOwnOperands` keeps a record per operand and shares nothing.
- **`RcValue`**, **`RcRichPresence`**, **`RcRuntime`**. What conditions come to is an input of
  each. A rich presence script is a sequence of lines, a lookup a tree as in the code. A
  definition is a version of the text of an id; progress is a sequence of chunks, and may be
  cut short anywhere. The buffer has the hashes of the names of variables, which are the names
  here, so that none collide.
- **`RcValidate`**. It is a function of the parsed definition. `pair` remembers which
  conditions a report is about, since the index the code reports is not always theirs (see below).
- **`HostAudio`**. `since` is the time since the last look at the queue; `ideal` is the history
  of a device that plays exactly, in fractions of a frame. `HostPads` has one update per frame,
  that may come late; `HostInput` counts angles in fractions of an eighth of a turn; `HostMods`
  kills a start at any point of a copy.

## Runs

| Run | Question | Instance |
|---|---|---|
| `http` | one thread, answered once and in order, refinement of `RaTransport`, every request answered | two game threads, three requests, status 0 or 200 |
| `load` | memory, counts, reports, ownership | two loads, two logins, files of one or two hashes, all calls and answers interleaved |
| `load_ends` | every load ends and reports | two loads, one login, fair transport |
| `unlocks` | schedule, events, scores, mastery | two unlocks that fail up to four times and twice, two users, unloads |
| `unlocks_settle` | everything settles, reconnection is told | an unlock and an entry, two failures each, fair |
| `frame` | screen follows state | six games: two achievements, pairs of leaderboards that share, do not, count hits or show another value, and a mix |
| `trigger` | evaluation means what is written (refinement of `RcTriggerMeaning`) | all definitions of two conditions in one or two groups, and seven of three or four |
| `engine` | operands, values, lookups, lists, progress, validation | some three thousand definitions, of one to four conditions of every kind, over two bytes; two clauses; five lookup entries in every order; two achievements, a leaderboard and a script in two versions |
| `library` | requests, lists, media, pauses | three requests for one slot, two games, two sets with four achievements, pauses of the longest and shortest cost |
| `host` | pacing, pads, rotation, mods | two rates, scripts of five plugs and three presses with late frames, sixteen angles, three mods in three releases |
| `load_no_sets`, `engine_restored` | each shows a disagreement listed below | |

What the properties that group several parts say, part by part, is in the comment of each part
where it is defined (for example `HeldWhileOutstanding` of `RcLoad` is: types, no use after
free, counts of outstanding requests, no leak but for loads that wait for a login).

Why these bounds are enough to be of interest: in `http`, three requests put one job in
each queue and one in the worker while two threads race to start. A load interferes with
the load before it only, so two loads reach every combination of stages; two logins are
needed for one to be superseded. Two unlocks are the least with which one can be in flight
while the other is queued. Four failures bring delays of one, two and four seconds, shorter and
longer than the periods of the ping and the timer in the same queue; the rest of the table of
delays is checked by `DelaysAsDocumented` in `MCRcUnlocks` up to
the twelfth. Trackers interact in pairs. Interactions of conditions go from one to the next,
or through a class, a group or a pause; the longer definitions have those that need three.
`trigger` runs with conditions without a target and with a target of 2, which is not met by the
first hit; three hits are one more than it. In `engine`, two bytes let an operand span both, and
four memories (`MCImages`), in any order, make value, delta and prior differ; the entries of a
lookup are inserted in every order. In `library`, one slot is taken by the first of
three requests, so that one has none; `Multiplier`, `MinimumFrames` and `LongestRun` are small
enough for the penalty to reach its limit and decay fully, and the theorem covers the others. In
`host`, three units in a second and rates of 4 and 7 leave a remainder at every look.

`CHECK_DEADLOCK FALSE` is given where a behaviour really ends: in `RcLoad` all loads and
logins of the instance may be done and the user may leave it at that, or memory was misused;
`unlocks` stops where a handler used a game that is not there (`fault`), after which the
code's behaviour is undefined; requests of `library` are made once, and frames of `engine` end
with its memories. The other runs check for deadlock.

### Fairness

- `RaHttp`: weak fairness of the RA thread's loop and of the worker. Both are detached
  threads that run as long as the process; WinHTTP's default time limits bound every call of
  the worker. Nothing is assumed of what rc_client does in a callback, so that its requests
  are not fair, and nor are the game threads.
- `RcLoad`: weak fairness of every answer (what `RaHttp` shows) and of the dispatch of a
  queued activation, which every frame does.
- `RcUnlocks`: weak fairness of the server and of idle, which is a loop that ends; strong
  fairness of handling answers and of time, since both are disabled while idle works and
  the thread takes turns between them.
- `HostAudio`: weak fairness of the game's polling and of a device that plays; strong
  fairness of time, whose tick is bounded between two looks (`MaxSince`).

## Proofs

**The transport** (`HostProofs`), for any set of game threads, any number of requests and
any set of statuses that has 0 in it (`HttpAssumption`):

- `TypeCorrect`: `Spec => []TypeOK`. The type invariant says which of the worker's
  program counters come with a job, so it is inductive as it stands.
- `SingleRaThread`: `Spec => []OneRaThread`. Not inductive alone: that no second thread
  is claimed needs that the flag is set by whoever claims (`ThreadInv`: without the flag,
  no thread and no claim; a thread that claims has stored the pointer).
- `HttpImplementsTransport`: `Spec => Abstract!TSpec`. Every step of the threads is
  `Accept`, `Refuse` or `Answer` of the abstract transport, or changes nothing of it.
  That `DrainJob` answers the *oldest* outstanding request needs `QueueOrder`: completed
  jobs are older than the worker's, which is older than pending ones, which are older than
  the one being pushed, and each queue is increasing.
- `CallbacksCorrect`: `Spec => []AnsweredInTurn`. Proved on the abstract
  steps: `LogInv` adds that queued answers are of requests older than all outstanding
  ones, and the refinement carries it to the threads.

**The audio queue** (`HostProofs`), for any unit of the clock, rates not below one frame
per unit, batch and limit (`AudioAssumption`):

- `NeverAhead`: `AudioSpec => []NeverAheadOfTime`. What a look drains is known only when it
  comes, so the property is not inductive. `Paced` charges the time since the last look to
  the ideal device at once and without rounding; each look then rounds in favour of the
  queue (`DrainedLeaves`), and a change of rate is charged on both sides alike.

**Bundled mods** (`HostProofs`), for any releases over any names of mods (`ModsAssumption`):

- `ModsAlwaysCurrent`: `ModsSpec => []BundledModsCurrent`. The property speaks of the end of a
  start. `CopiedSoFar` says it of each mod the loop has passed while nothing has failed; the user
  cannot undo it, because changes to the folder are made while the program is off.

**Turned movement** (`HostProofs`), for any unit of angle and any whole rotations in it
(`InputAssumption`):

- `RotationAlwaysNearest`: `InputSpec => []RotationIsNearest`. `TurnedIsNearest` is about the
  arithmetic: `lround` is at most half an octant off, also below zero where halves go the other
  way (`LRoundIsNearest`), whole turns may be taken off before or after (`TurnsTakenOff`), and the
  buttons of an octant point back into it (`PointsIntoOctant`).

**Pauses** (`RcLibraryProofs`), for any minimum, multiplier of at least 2 and longest run
(`PauseAssumption`):

- `PausesSpaced`: `PauseSpec => []PausesAreSpaced`. `PauseInv`: either the counter still counts
  down the frames since the last pause (`Counting`), or they are paid for and the counter is
  below the point where it asks for more (`Paid`), which halving keeps.

**Requests** (`RcLibraryProofs`), for any requests, number of slots, media, files and answers
(`RequestsAssumption`: what stands for no request and for no hash is none, and every kind of
list has its answers, sequences of entries whose strings have lengths or are missing):

- `HeardOnceAlways`: `RequestsSpec => []HeardOnce`. The property says nothing of slots, on which
  it depends: that no answer touches a client that is gone needs that every open request with a
  slot was marked by `rc_client_destroy`. `RequestsInv` is the type of the state and, of each
  request, `RequestOK`: one that is open has its slot, is marked destroyed, or never had one; a
  slot belongs to an open request of a client that is there; a change that waits for a load was
  not begun and nobody was told of it. It is inductive (`RequestsInvariant`). `Does` says what
  each helper (`Tell`, `BeginAsync`, `EndAsync`, `ChangeMediaInternal`) leaves alone, so that an
  action is looked at for one request only (`Doing`).
- `ListsAlwaysFit`: `RequestsSpec => []ListsFit`. That every list was built by `ListOf` is part of the
  type of a request, so that the theorem is about the three loops of `ListOf`. `Sums` is where each
  string ends when they stand one after another; that the room for what is joined is the sum of the
  rooms (`RoomsJoin`) makes the counted size the last of these sums (`SizeIsEnough`), and the loop that
  copies puts each string where the one before it ends (`WrittenInTurn`).
- `MediaStayTheirs`: `RequestsSpec => MediaOfThisGame`, an action property. A change that is under
  way carries the game it was asked of, and the one that waits for a load was asked of the game
  that is loading (`Owed`); while one is loading none is active (`OneGame`). `Changed` is shown of
  every step from these (`NextMedia`); a load that ends makes its game active and begins the
  change that waited in one step (`LoadEndsMedia`).

**Unlocks and addresses in lists** (`RcLibraryProofs`), for any sets of achievements and leaderboards
and any unlocks. `ListsAssumption` says that what is loaded has not run and that no id is in a game
twice:

- `UnlocksAreApplied`: `ListsSpec => []UnlocksApplied`. The loop over the unlocks is a fold over a
  sequence (`LoopRuns` of `Loops`). `Passed` is its invariant: an achievement is marked
  with one of the times so far if there is one, and whatever is outside the window was found, so
  that a later unlock for it, which finds nothing, changes nothing that the property asks. With ids
  that occur twice the property fails: only the first in the window is marked.
- `UnreadableStaysOut`: `ListsSpec => []UnreadableIsOut`. A disabled achievement need not be shown as
  unsupported in general, so that `OutInv` adds that each one is (`DisabledAreOut`), which
  `Displayed` relies on to leave it alone; that the state has the shape of what was loaded (`Shape`),
  by which ids stay distinct and `listed` says of one achievement what it means; and that what has
  an unreadable address is out (`AllOut`). Each action replaces some achievements or leaderboards by
  others that `Heeds` allows.

**Loads** (`RcLoadProofs`), for any loads, logins, hashes and candidates (`LoadAssumption`), under
two assumptions without which it is not so:

- `"nosets" \notin FetchOutcomes`: the server does not answer with a game and no sets. The run
  `load_no_sets` shows what happens if it does.
- `FALSE \notin SpectatorCalls`: the spectator mode of a client that may read memory in the frame only
  is not changed. TLC finds that an activation that is queued is refused when the mode was turned
  on and off again meanwhile (see below). A client reads memory in the background unless told
  otherwise (`rc_client.c:175`), and the host does neither.

`MemoryHeld`, `CalledBack` and `OwnedByTheClient` are `Spec => []HeldWhileOutstanding`,
`[]CalledTwiceOnlyWhenQueued` and `[]GameOwned`; they follow from one inductive invariant, `LoadInv`.
Of each load, `LoadOK` says what holds it: a live one has one request, or is in the queue of
activations, or waits for a login (`LiveOK`), and was not called back unless it was superseded;
nothing holds one that was freed. `ClientOK` says that there is no game while one is loaded and that
nothing is queued twice. A handler works on one load through up to five helpers, between which
`LoadOK` does not hold of it: `Handled` is what holds half-way, of the load in hand with the number of
requests still to be counted off, while `LoadOK` holds of the others (`Spread`). `Works` says which
fields each helper may change. `SupersededStaysInactive` is the action property
`Spec => SupersededNeverActivates`, from the same invariant: each helper activates the load in hand
or leaves the game alone, and that load is the current one when it does.

**Unlocks** (`RcUnlocksProofs`), for any achievements, entries, users, failures and periods
(`UnlocksAssumption`):

- `SentOnSchedule`: `Spec => OnSchedule`. The queue is treated as the set of its entries:
  `QueueOK` is that it is ordered and has no callback twice, and a lemma for each operation
  (`Inserting`, `Removing`, `Popping`, `Unscheduling`, `Rescheduling`, `Passing`) says that it keeps
  `QueueOK` and what becomes of the set. `SentInv` ties the set to the states of the jobs
  (`WaitsOK`): a job is in it when it waits, has failed twice or more, and what it has waited
  and what is left are its delay together; and requests and answers to those in flight (`NetOK`).
  That `Reschedule` finds the timer before a later callback needs that it is only ever put
  off, which `WaitsOK` also keeps. A job leaves the queue only with nothing left, so that it has
  waited for its delay, and the delay is the documented one (`DelayIs`).
- `ConnectionIsTold`: `Spec => ConnectionTold`. `ConnectionInv` adds to the two invariants what the
  user was told last, which is what the state says without its pending flags.
- `CountedOnce`: `Spec => CreditedOnce`. The property is about the time when all answers
  have come; before, `ScoresInv` says that the *last* of the scores among the answers is the
  server's, or that an achievement is `Unsure`: its unlock may be recorded without an answer on its
  way that says so. Requests under way are all of the user who is logged in. `MasteryInv`: what
  is announced or about to be was complete on the server, which forgets nothing.

**Frames** (`RcFrameProofs`), for any achievements, leaderboards and values. `FrameAssumption` says
of a game that a leaderboard has a value, and that one which shows another value than it submits
counts hits in neither:

- `AlwaysScreenIsRight`, `AlwaysEventsInTurn` and `AlwaysFewTrackers`: `Spec =>
  []ScreenIsRight`, `[]EventsInTurn` and `[]FewTrackers`, from one inductive invariant, `Good`
  (`AlwaysGood`). Between calls nothing is pending for a tracker, its count is the number of
  leaderboards that point to it, it is on the screen if there is one, and it stands at what they
  submit (`Settled`, `Theirs`, `Tracked`); a leaderboard has a tracker if and only if its attempt
  is under way (`BoardOK`), and none is in softcore (`Modal`). An achievement that is still active is
  one the player may earn in this mode (`Locked`), without which a second award could not be excluded.
- Within a call the flags of a tracker lag behind its users and the screen behind the flags. `Held`
  is what holds after each leaderboard. `Ready`: a tracker without users is to be hidden or was never
  shown, one with users is on the screen or to be shown, and a value that is not displayed yet is to
  be updated, from which `RaiseTrackerEvents` restores `Settled` whatever happened before. `Agree`: the
  trackers of the leaderboards *processed so far* stand at the values of this frame. `Short`: a
  tracker that is neither used nor free was left by a leaderboard processed in this call, so that one
  is appended only when there are fewer than two for each.
- A loop over the leaderboards is a fold. `LoopInduction` (`Loops`) says that what is carried from
  each element to the next holds after the last, for any body, and the proofs instantiate it for
  those of the frame, the reset, the end of hardcore, loading progress and unloading. The library's
  rules of induction take an operator as a parameter, which the provers cannot instantiate; `Loops`
  takes the body as a constant instead and has induction from the fact that < is well founded, applied
  to the *set* of the numbers for which the invariant holds.

**Triggers** (`RcTriggerProofs`), for any set of definitions, of any number of groups and conditions,
and any bound of the hits. `TriggerAssumption` says what `rc_validate.c` asks of a definition: that
the condition which ends a chain of AddHits or SubHits has a target. Without it the sum would be
left to the next chain, and the definition would mean something else.

- `TriggerImplementsMeaning`: `Spec => ImplementsMeaning`. The abstract specification is a recursion
  along the conditions as they are written (`Links`); the code evaluates them block by block, a
  block only while nothing is paused or reset, with flags and a sum that each condition leaves to
  whichever comes next. The two are related condition by condition. `Carries` is what the flags
  and the sum must be when condition i is reached, in terms of the links of those before it, and
  `EvaluateDoes` is that one step then gives the hits of its link, is valid when its chain is, and
  carries what it should to i + 1. A condition that ends a chain leaves everything `Fresh`, so that
  the next chain of the block may stand anywhere (`ChainStarts`); that a sum is used up needs the
  assumption (`NothingAdded`). `Passed` is the invariant of the loop over a block: what comes of its
  conditions up to here (`Upto`), or of those up to the first PauseIf that holds. Blocks are then
  put together (`UptoThen`, `BlocksCover`).
- `GroupMeansItsOwn` is the result for a group, for any hits below their targets and any
  comparisons: paused, reset, true, primed and hits are those of `Meaning`. When a ResetIf holds,
  the code goes on with cleared hits or leaves blocks out, and truth and hits are no longer
  those of the definition; all that is needed then is that it stays reset and not paused
  (`ResetPassDoes`). `LastKnows` carries `reset` and `has_hits` through the groups.
- `AlwaysTallyIsKnown`: `Spec => []TallyIsKnown`. `TriggerInv` adds that each group has hits of its own
  conditions. What the property says of `has_hits`, of Primed and of what is measured is proved
  along with the meaning of a group (`Says`, `Tallies`), since each depends on which block was
  reached.

**Values** (`RcEngineProofs`), for any clauses, and any readings of memory and counts of hits that fit
in a word (`ValueAssumption`):

- `ValueAlwaysGreatest`: `ValueSpec => []ValueIsGreatest`. The history says what the greatest is as the
  maximum of a set; the code finds it in a loop that takes the first measurement and whatever is
  greater. `GreatestOf` is its invariant: nothing while all clauses so far are paused, or one of their
  measurements that none exceeds, and `GreatestExpected` says that this is the maximum. `ValueInv` adds that
  the hits of a clause, which a reset clears and a pause keeps, are those since its last reset, and
  that they fit in a word, without which a measurement would wrap around.

**Validation** (`RcEngineProofs`), for any definitions and any room for two errors or more
(`ValidateAssumption`; with room for one the code would keep the last error, not the worst):

- `WorstAlwaysTold`: `ValidateSpec => []WorstIsTold`. When there is no more room an error takes the place
  of the least severe, even of one that is more severe than itself. `Kept` is what that preserves: all
  that is told was found, and for *every* error found one is told that is no less severe - when the least
  severe makes way for another, any of those that stay serves, since `MoreSevere` is a strict weak order
  (`Transitive`). All loops of the validation only add errors (`AddKeeps`), which `Loops`
  carries through them one by one; nothing is needed of *which* errors they find but that each is one
  of the table `Severity`.

**Runtime and saved progress** (`RcEngineProofs`), for any ids, texts, scripts and inputs
(`RuntimeAssumption`: a script has no variable twice, and none is called like the other words of
the buffer):

- `AlwaysEachOnce`: `RuntimeSpec => []EachOncePerFrame`. The frame walks the list from its end while the
  handler of an event may deactivate the achievement it is at, whose place the last one takes.
  `Walked` is the invariant of the loop: what was not passed is still where it was, and what was
  evaluated are the ids of those that were, in their order. That the one that takes the place was
  passed before needs that no id is in the list twice (`Apart`), which every activation,
  replacement and deactivation keeps (`RuntimeOK`).
- `AlwaysRestored`: `RuntimeSpec => []RestoredAsSaved`, whatever was activated, replaced or deactivated
  since. `BufferOK` says what a saved buffer is: one chunk of an item and the variables first
  (`SerializedOK`). While it is read, `ItemsRead` says of each item that was running that it is not
  updated until the one chunk of its id and text comes, and is what that chunk says from then on.
  `ReadSoFar` says of the words of the variables that they are read in fours as long as every name
  is still known; after a name that is not, the code reads its flags, value and prior as names, and
  the property claims nothing.

tlapm limits not only what the provers may take but the translation of an obligation for them,
which no pragma of a leaf extends. The leaves are kept small for that reason, and updates of the
state that several proofs need are operators of the models (`Detach`, `Uncount`, `CountOff`,
`Run`, ...). Every leaf is proved in about a seventh of the default time
(`tlapm --stretch 0.15 M.tla`).

Only model-checked:

- All liveness: the prover has no rules for fairness and ENABLED here.
- What recursion over trees and definitions computes: `RcRichPresence` declares
  recursive operators, which only runs use; `MeansItsOwn` compares two recursions over the
  operands of a definition, whose invariant relates every intermediate result of both.
- `ReportsAreTrue` of `RcValidate`, which says of each report what its conditions come to whatever
  memory reads. The ranges that the validation works out along a chain would have to bound every value
  that shared records take along it, which is a recursion over the definition again.
- `EachShownOnce` of `RcLists`. It is about sorting and selecting, of which the library has no theorems.
- `HostPads`.

## Disagreements found

Shown by a run:

- **A response without sets** (`load_no_sets`). `rc_client.c:2383` reports the error and
  the load state is freed by the failing session request; the callback then goes on with it.
- **Restored sums** (`engine_restored`). A sum of three references is computed again without
  its last term when progress is restored (`runtime_progress.c:205`), and its delta is wrong in
  the next frame.

Met while modelling, and described here only. In the **client**:

- A login cancelled by `logout` is told only by `state.user` (`rc_client.c:688`); when another
  login was begun in between, its answer is taken for that of the new one.
- `RECONNECTED` is decided by the queue (`rc_client.c:543`), not by the retry in flight, though
  `rc_client.h:825` says all pending unlocks have completed.
- Leaderboards that count hits share trackers by the raw value of the last frame
  (`rc_client.c:5216`); they are compared before they are evaluated. Trackers are shared by the
  hash of what is submitted, which need not be what is shown (`rc_client.c:2243`; `Comparable`
  in `RcFrame`).
- A load that waits for a login and is given up is never freed: its outstanding request is
  the login, which forgets it (`rc_client.c:3170`; `OnlyAwaitingLoadsLeak` excepts it).
- A queued activation that is superseded reports "aborted" twice (`rc_client.c:1797` and
  2919; `CalledTwiceOnlyWhenQueued` excepts it). `abort_async` promises that the callback is
  not called (`rc_client.h:135`), which holds only while a request is under way.
- Spectator mode can be turned off after loading in it, by turning it on first
  (`rc_client.c:7075`; the warning at 7070 says it cannot). When that happens while an activation
  is queued, it has no session: the load ends with "Unlock arrays were not allocated"
  (`rc_client.c:1800`) and is freed while `state.load` still names it.
- A retry that is due when nobody is logged in is lost, and the client stays disconnected
  (`rc_client.c:4779`; `DisconnectedMeansPending` has the case). A retry that is due when
  someone else has logged in is recorded for them (`rc_client.c:4767`, against
  `rc_client.h:825`).
- The answer to the last unlock and a pending mastery read `client->game` when the game
  was unloaded meanwhile (`rc_client.c:4732`, 6223; `fault` in `RcUnlocks`).
- An asset disabled while it runs leaves its indicator or tracker on the screen
  (`rc_client.c:1292`), and stays in the list of the runtime's leaderboards in that frame; its
  tracker is never released, as a reset skips what is disabled (5507).
- A change of media to a known hash while a load is identified but not active reads
  `client->game`, which is not there (`rc_client.c:3216`; the guard of `ChangeMedia` leaves the
  call out). Two changes answered out of order leave the older hash. A pending change that is
  replaced, or whose load fails, is never reported. Data given without a path is hashed with
  `rc_djb2(NULL)` (3424).
- A request without a slot returns no handle, as if it had completed, cannot be aborted, and its
  answer after `rc_client_destroy` uses the client (`HeardOnce` has the case).
- `measured_percent` stays after a reset, so that an achievement with nothing measured may be
  in the bucket of those that are almost there; the bucket of a hidden leaderboard counts for room;
  leaderboard buckets of a subset get labels of achievements by default (4946).
- A pause may cost more than the five seconds of the comment at `rc_client.c:6703`: up to one
  minimum less one frame more, as the limit is tested before the minimum is added.

In the **evaluation** of definitions:

- `condset.c:489` does not clear the sum of an AddHits chain that ends in a condition without a
  target, and the next condition with a target counts it (the comment at 477 says otherwise).
- What an alternative measured stays when its hits are reset by another group while it
  alone is paused: `trigger.c:257` looks into paused groups only when all are.
- Two SubSource in a row whose first operand is a delta, prior, BCD or constant
  (`condition.c:401`); SubSource after AddSource of a recall of a high half shifts twice; a
  recall of BCD or inverted is not decoded (`operand.c:605`); recalls are equal when their
  reference is (`rc_operands_are_equal`).
- An address and a delta of one reference are taken as equal when nothing changed, though their
  sizes differ (`condition.c:650`); `rc_condition_get_real_operand1` makes an address of a delta
  (502); the prior of a sum is not the sum of the priors (`operand.c:536` says so); a bit count
  has the prior of its byte.
- The greatest clause is compared as unsigned, though a value may be negative (`value.c:345`).
- Joined ranges of a lookup may overlap a duplicate that is not noticed.
- After progress is restored: a modified reference with an indirect parent is computed before the
  indirect values are read; the prior is wrong when one parent changed; a saved variable keeps
  its first clause only; variables that follow one that is gone from the script are read into the
  wrong place (`runtime_progress.c:540`); `has_hits` is not saved. A buffer that fails resets also
  what was inactive or triggered.

`RcMemref` leaves these combinations out of its instances; what is in them is checked in full.

In the **validation** (`rc_validate.c`):

- The two functions for one group have the test of `rc_validate_condset_internal` inverted (867–898).
- `a >= 1` then `a >= 2` is called redundant (the row of the table near 1084); a constant on the
  left is compared with the opposite instead of the mirrored comparison (932); a PauseIf of the core
  and one of an alternative are compared without inversion.
- The greatest value of an inverted bit count, and of `&` and `^` with a bit count or BCD, is too
  small (497–507).
- `cond_index` does not move while a chain is skipped, so that a report may name the wrong condition,
  or one twice; the comment says that both are not reported.

In the **host**: when the rate changes while there is no device, the time since the last look is
charged at the new rate (`src/main/main.cpp:407`); `ideal` in `HostAudio` does the same.

## What could follow

- A proof with `Loops` of what the folds of `RcLists` show (`EachShownOnce`).
- `RaHttp` composed with the client's calls, so that the assumption of `RcLoad` on answers is
  discharged in one model.
- Floats in memory, and the iteration over candidate hashes of `rhash`.
