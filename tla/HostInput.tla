---------------------------- MODULE HostInput ----------------------------
(***************************************************************************)
(* The rotation of the movement that a mod may ask for                     *)
(* (src/main/main.cpp): the direction of the d-pad is turned and snapped   *)
(* to one of eight before the game sees it.  Angles are in 1/Fine of 45    *)
(* degrees.                                                                *)
(***************************************************************************)
EXTENDS Integers

CONSTANTS
    Fine,       \* units of an octant
    Rotations   \* rotations a mod sets, in these units

ASSUME InputAssumption == Fine \in Nat \ {0} /\ Rotations \subseteq Int

Button == {"up", "down", "left", "right"}

VARIABLES
    rotation,   \* mod_movement_rotation
    pressed,    \* buttons of the d-pad that are held
    seen,       \* what the game was given of them last
    caughtUp    \* `seen` belongs to `pressed` and `rotation`

inputVars == <<rotation, pressed, seen, caughtUp>>

InputInit == rotation = 0 /\ pressed = {} /\ seen = {} /\ caughtUp = TRUE

Axis(plus, minus, held) == (IF plus \in held THEN 1 ELSE 0) - (IF minus \in held THEN 1 ELSE 0)
Direction(held) == <<Axis("right", "left", held), Axis("up", "down", held)>>

\* dirs: octant 0 is right, and they go on counter-clockwise.
Dirs == << <<1, 0>>, <<1, 1>>, <<0, 1>>, <<-1, 1>>, <<-1, 0>>, <<-1, -1>>, <<0, -1>>, <<1, -1>> >>

\* atan2 in octants: -3 to 4.
Atan2(d) == LET o == CHOOSE i \in 0..7 : Dirs[i + 1] = d IN IF o > 4 THEN o - 8 ELSE o

LRound_Down(n, d) == n \div d           \* faulty variant: rounds down
\* std::lround of n/d: halves go away from zero.
LRound(n, d) == IF n >= 0 THEN (2 * n + d) \div (2 * d) ELSE -((2 * (-n) + d) \div (2 * d))

Held(d) ==
    (IF d[1] > 0 THEN {"right"} ELSE IF d[1] < 0 THEN {"left"} ELSE {}) \cup
    (IF d[2] > 0 THEN {"up"} ELSE IF d[2] < 0 THEN {"down"} ELSE {})

\* get_n64_input_for_mods.  Buttons that cancel out are passed on as they are.
Rotated(held, turn) ==
    IF turn = 0 \/ Direction(held) = <<0, 0>> THEN held
    ELSE LET octant == LRound(Atan2(Direction(held)) * Fine + turn, Fine)
         IN  Held(Dirs[1 + (octant % 8)])

\* mod_set_movement_rotation: by a mod, on the thread of the game.
SetRotation ==
    /\ rotation' \in Rotations /\ caughtUp' = FALSE
    /\ UNCHANGED <<pressed, seen>>

\* The player moves on; then the game asks.
Press ==
    /\ pressed' \in SUBSET Button /\ caughtUp' = FALSE
    /\ UNCHANGED <<rotation, seen>>

GetInput ==
    /\ seen' = Rotated(pressed, rotation) /\ caughtUp' = TRUE
    /\ UNCHANGED <<rotation, pressed>>

InputNext == SetRotation \/ Press \/ GetInput

InputSpec == InputInit /\ [][InputNext]_inputVars

---------------------------------------------------------------------------
\* How far two directions are apart the short way around the circle.
Apart(a, b) == LET d == (a - b) % (8 * Fine) IN IF 2 * d > 8 * Fine THEN 8 * Fine - d ELSE d
Angle(held) == Fine * Atan2(Direction(held))

\* The game sees the direction of the d-pad that is nearest to the one the player means: never
\* more than half an octant away from the held direction turned by the rotation, whatever
\* the sign of the angles, however far the rotation goes around, and never two opposite buttons.
RotationIsNearest ==
    caughtUp /\ rotation # 0 /\ Direction(pressed) # <<0, 0>> =>
        /\ Direction(seen) # <<0, 0>> /\ seen = Held(Direction(seen))
        /\ 2 * Apart(Angle(seen), Angle(pressed) + rotation) <= Fine
===========================================================================
