--------------------------- MODULE MCCvConsumer ---------------------------
(* Small instances of CvConsumer. *)
EXTENDS CvConsumer

CONSTANTS e1, k1, k2

Of(event, type, label) ==
    [event |-> event, type |-> type, label |-> label, bundle |-> TRUE, payload |-> TRUE]

\* Dark-vessel records: of two labels and keys for one event, of the other type,
\* and one whose label was raised after it was signed.
Raised == [SignEnvelope(k1, Of(e1, "dark", "RESTRICTED")) EXCEPT !.content.label = "CONFIDENTIAL"]
DarkRecords ==
    { SignEnvelope(k1, Of(e1, "dark", "RESTRICTED")), SignEnvelope(k2, Of(e1, "dark", "PUBLIC")),
      SignEnvelope(k1, Of(e1, "vessel", "INTERNAL")), Raised }

\* Vessel records: admissible, with a label that is not mapped, not signed.
VesselRecords ==
    { SignEnvelope(k1, Of(e1, "vessel", "SECRET")), SignEnvelope(k1, Of(e1, "vessel", "PUBLIC")),
      [content |-> Of(e1, "vessel", "PUBLIC"), signature |-> Unsigned] }
AdmissionRecords == [t \in Topics |-> IF t = "dark" THEN DarkRecords ELSE VesselRecords]

\* The directory lists one key, or one key first and the other later.
Rotation == {{k1}, {k2}}
OneKey == {{k1}}

\* Admissible records: an alert of either label, a vessel.
AlertRecords ==
    [t \in Topics |->
        {SignEnvelope(k1, Of(e1, t, label)) :
            label \in IF t = "dark" THEN {"INTERNAL", "RESTRICTED"} ELSE {"PUBLIC"}}]

Sent(valid, accept, clearance) == [valid |-> valid, accept |-> accept, clearance |-> clearance]

Failing == Sent(FALSE, TRUE, 0)

\* Each stage may get a signal that fails the run and one that goes ahead; the
\* analyst and the officer may decline, the analyst may lack the clearance.
EverySignal ==
    [channel \in Channels |->
        CASE channel = "classification" ->
                {Failing, Sent(TRUE, FALSE, 1), Sent(TRUE, TRUE, 0), Sent(TRUE, TRUE, 1)}
          [] channel = "dispatch" -> {Failing, Sent(TRUE, FALSE, 0), Sent(TRUE, TRUE, 0)}
          [] OTHER -> {Failing, Sent(TRUE, TRUE, 0)}]
FailingSignal == [channel \in Channels |-> IF channel = "classification" THEN {Failing} ELSE {}]
=============================================================================
