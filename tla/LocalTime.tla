----------------------------- MODULE LocalTime -----------------------------
(***************************************************************************)
(* Wall-clock times of a zone and the instants they name (timezone.util.ts). *)
(* Both are counted in one unit, of half an hour say, from one origin; a     *)
(* zone is its offset before and from a transition on.                      *)
(***************************************************************************)
EXTENDS Integers

CONSTANTS
  MaxOffset,  \* bound: offsets either side of UTC, in units
  MaxJump,    \* an hour: what a transition moves the clock by, at most
  Day,        \* 24 hours
  Span        \* bound: instants either side of the transition

VARIABLES
  zone,  \* [before, after : offsets, at : the transition]
  wall,  \* the wall-clock time asked for
  named, \* the instant it is taken to name
  day    \* the instants taken to be those of the day, if it is a midnight

vars == <<zone, wall, named, day>>

Zones == {z \in [before : -MaxOffset..MaxOffset, after : -MaxOffset..MaxOffset,
                 at : {0}] :
            z.after - z.before \in -MaxJump..MaxJump}

\* tzOffsetMs, and the wall clock at an instant.
Offset(z, instant) == IF instant < z.at THEN z.before ELSE z.after
WallAt(z, instant) == instant + Offset(z, instant)

\* Mutant: one pass.
LocalTimeToUtcBug(z, w) == w - Offset(z, w)

\* localTimeToUtc: the wall time read as UTC, corrected twice by the offset
\* at the candidate.
LocalTimeToUtc(z, w) ==
  LET first == w - Offset(z, w)
  IN w - Offset(z, first)

\* localDayBoundsToUtc: up to the next local midnight.
DayBounds(z, w) == LocalTimeToUtc(z, w)..(LocalTimeToUtc(z, w + Day) - 1)

Init ==
  /\ zone = [before |-> 0, after |-> 0, at |-> 0]
  /\ wall = 0 /\ named = 0 /\ day = 0..(Day - 1)

Resolve ==
  \E z \in Zones, w \in -Span..Span :
    /\ zone' = z /\ wall' = w
    /\ named' = LocalTimeToUtc(z, w) /\ day' = DayBounds(z, w)

Next == Resolve
Spec == Init /\ [][Next]_vars

-----------------------------------------------------------------------------
(* Properties                                                               *)

Instants == -(Span + Day + MaxOffset)..(Span + Day + MaxOffset)

\* The instants at which the clock shows a time.
Shows(w) == {t \in Instants : WallAt(zone, t) = w}

\* A time that the clock shows is taken for an instant at which it shows it,
\* whatever the side of UTC and of the transition.  A time that a jump forward
\* leaves out is taken for one within the size of the jump from it.
LocalTimesResolve ==
  IF Shows(wall) # {} THEN named \in Shows(wall)
                      ELSE WallAt(zone, named) - wall \in -MaxJump..MaxJump

\* What is made of the times that a transition leaves out or shows twice: east of
\* UTC they come after it, so that a skipped time is the valid one after the jump
\* and a repeated one its second occurrence; west of UTC before it, so that the
\* one is before the jump and the other its first occurrence.  (timezone.util.ts
\* says of every zone: after the jump, and the first occurrence.)
East == zone.before >= 0 /\ zone.after >= 0
West == zone.before <= 0 /\ zone.after <= 0
TransitionsHaveASide ==
  (\A t \in Instants : Shows(wall) # {t}) =>
    /\ East => named >= zone.at
    /\ West => named < zone.at

\* A day is the instants at which the clock shows that day, an hour more or
\* less than 24 when it jumps; unless a midnight is the time that it leaves
\* out or shows twice.
DayIsWhole ==
  (\A w \in {wall, wall + Day} : \E t \in Instants : Shows(w) = {t}) =>
    day = {t \in Instants : WallAt(zone, t) \in wall..(wall + Day - 1)}
=============================================================================
