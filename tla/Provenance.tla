---------------------------- MODULE Provenance ----------------------------
(***************************************************************************)
(* Envelope provenance (internal/provenance/provenance.go), as far as its  *)
(* answers go.  An Ed25519 signature is the pair of the key and what it    *)
(* signed.  Two documents have the same canonical JSON exactly when they   *)
(* say the same, so what an envelope says stands for its payload.  A key   *)
(* is named by its kid.                                                    *)
(***************************************************************************)
CONSTANT Unsigned      \* no signature, or one that is not a JWS of this algorithm

\* Signer.SignEnvelope: the content without the signature field is signed.
SignEnvelope(kid, content) ==
    [content |-> content, signature |-> [kid |-> kid, over |-> content]]

\* Faulty variant: the payload carried in the JWS is trusted instead of being
\* derived again from the envelope.
VerifyEnvelopeDetached(directory, envelope) ==
    envelope.signature # Unsigned /\ envelope.signature.kid \in directory

\* Directory.VerifyEnvelope: a JWS by a key of the directory, over this content.
VerifyEnvelope(directory, envelope) ==
    /\ envelope.signature # Unsigned
    /\ envelope.signature.kid \in directory
    /\ envelope.signature.over = envelope.content

\* LoadDirectory refuses an empty or undecodable document.
Loadable(document) == document # {}
=============================================================================
