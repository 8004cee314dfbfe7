-------------------------- MODULE SketchConstraints -------------------------
(***************************************************************************)
(* The classes of Constraints.cpp that a sketch posts, each by the values  *)
(* of its operands at which error() is zero. Distances are compared by     *)
(* their squares and a length by its square; angles are eighths of a turn. *)
(* The scale factors, the gradients and the step limits only steer the     *)
(* numeric iteration towards these values.                                 *)
(***************************************************************************)
EXTENDS Integers

Square(x) == x * x
Difference(v, i, j) == <<v[j] - v[i], v[j + 1] - v[i + 1]>>
Cross(a, b) == a[1] * b[2] - a[2] * b[1]
Scalar(a, b) == a[1] * b[1] + a[2] * b[2]
Length2(a)  == Scalar(a, a)

EqualMet(v)      == v[1] = v[2]
DifferenceMet(v) == v[2] - v[1] = v[3]

P2PDistanceMet(v) == Length2(Difference(v, 1, 3)) = Square(v[5])
P2LDistanceMet(v) ==
    Square(Cross(Difference(v, 3, 1), Difference(v, 3, 5)))
    = Square(v[7]) * Length2(Difference(v, 3, 5))
PointOnLineMet(v) == Cross(Difference(v, 3, 1), Difference(v, 3, 5)) = 0

ParallelMet(v)      == Cross(Difference(v, 1, 3), Difference(v, 5, 7)) = 0
PerpendicularMet(v) == Scalar(Difference(v, 1, 3), Difference(v, 5, 7)) = 0
EqualLineLengthMet(v) == Length2(Difference(v, 1, 3)) = Length2(Difference(v, 5, 7))

(* The middle of the first line lies on the second. *)
MidpointOnLineMet(v) ==
    Cross(<<v[1] + v[3] - 2 * v[5], v[2] + v[4] - 2 * v[6]>>, Difference(v, 5, 7)) = 0

(* The direction an angle turns another one to; its length grows. *)
Turned(a, eighths) ==
    LET t[n \in 0 .. 7] == IF n = 0 THEN a ELSE <<t[n-1][1] - t[n-1][2], t[n-1][1] + t[n-1][2]>>
    IN  t[eighths % 8]
L2LAngleMet(v) ==
    LET turned == Turned(Difference(v, 1, 3), v[9])  other == Difference(v, 5, 7) IN
    Cross(turned, other) = 0 /\ Scalar(turned, other) >= 0

(* Circles that touch: inside one another, or side by side. *)
TangentCircumfMet(v) ==
    Length2(Difference(v, 1, 3)) = IF v[7] THEN Square(v[5] - v[6]) ELSE Square(v[5] + v[6])

(* A point at a distance of a circle, outside of it or inside. *)
P2CDistanceMet(v) ==
    LET apart2 == Length2(Difference(v, 1, 3))
        reach  == IF apart2 < Square(v[5]) THEN v[5] - v[6] ELSE v[5] + v[6]
    IN  reach >= 0 /\ apart2 = Square(reach)

C2LDistanceMet(v) ==
    LET line == Difference(v, 4, 6) IN
    /\ v[3] + v[8] >= 0
    /\ Square(Cross(Difference(v, 4, 1), line)) = Square(v[3] + v[8]) * Length2(line)

(* From the start to the end, counterclockwise. *)
ArcLengthMet(v) == v[1] * ((v[3] - v[2]) % 8) = v[4]

Holds(kind, v) ==
    CASE kind = "Equal"           -> EqualMet(v)
      [] kind = "Difference"      -> DifferenceMet(v)
      [] kind = "P2PDistance"     -> P2PDistanceMet(v)
      [] kind = "P2LDistance"     -> P2LDistanceMet(v)
      [] kind = "PointOnLine"     -> PointOnLineMet(v)
      [] kind = "Parallel"        -> ParallelMet(v)
      [] kind = "Perpendicular"   -> PerpendicularMet(v)
      [] kind = "EqualLineLength" -> EqualLineLengthMet(v)
      [] kind = "MidpointOnLine"  -> MidpointOnLineMet(v)
      [] kind = "L2LAngle"        -> L2LAngleMet(v)
      [] kind = "TangentCircumf"  -> TangentCircumfMet(v)
      [] kind = "P2CDistance"     -> P2CDistanceMet(v)
      [] kind = "C2LDistance"     -> C2LDistanceMet(v)
      [] kind = "ArcLength"       -> ArcLengthMet(v)
=============================================================================
