--------------------------- MODULE MCTrackFusion ---------------------------
(* Small instances of TrackFusion. *)
EXTENDS TrackFusion, TLC

CONSTANTS Vessels          \* MMSIs, as model values

Symmetry == Permutations(Handlers) \cup Permutations(Vessels)

\* A report with its own mmsi, one without, one with another vessel's, and what
\* radar sees.
AIS(m, at, pos) == [mmsi |-> m, ais |-> m, at |-> at, pos |-> pos, label |-> 0]
Bare(m, at, pos) == [AIS(m, at, pos) EXCEPT !.mmsi = None]
Contradicting(at, pos) ==
    {[AIS(m, at, pos) EXCEPT !.mmsi = n] : <<m, n>> \in {p \in Vessels \X Vessels : p[1] # p[2]}}
SAR(at, pos, label) == [mmsi |-> None, ais |-> None, at |-> at, pos |-> pos, label |-> label]

\* Vessels that report and one that is only seen; a sighting at 1 is as far from
\* a track at 0 as from one at 2.
IdentitySightings ==
    {AIS(m, 0, pos) : m \in Vessels, pos \in 0..2} \cup {SAR(0, pos, 0) : pos \in 0..2}
    \cup {Bare(m, 0, 2) : m \in Vessels} \cup Contradicting(0, 0)

\* Vessels that meet at one place or part, over two instants, and a classified
\* sighting of one of them.
RuleSightings ==
    {AIS(m, at, pos) : m \in Vessels, at \in 0..1, pos \in {0, 2}} \cup {SAR(1, 0, 1)}
    \cup {Bare(m, 1, 2) : m \in Vessels} \cup Contradicting(0, 0)

OneZone == <<{0}>>
NoZones == <<>>
=============================================================================
