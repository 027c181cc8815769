----------------------------- MODULE MCHubIngest -----------------------------
(* The ingest endpoint with two devices whose batch ids may coincide.       *)
EXTENDS HubIngest

CONSTANTS Batches, Payloads, MaxSequence

\* The payload tells apart two envelopes that share a batch id.
MCRequests == [device : Devices, batch : Batches,
               sequence : 1..MaxSequence, payload : Payloads]
=============================================================================
