------------------------------- MODULE Fault --------------------------------
(***************************************************************************)
(* Whose fault a failed push is: bincache-ingest/src/fault.rs, the `fault` *)
(* of the errors of ingest.rs and upload.rs, and the status handler.rs     *)
(* makes of it.  An error is the name of its variant; Ingest's Upload      *)
(* variant answers as the upload error inside it does.                     *)
(***************************************************************************)

\* What the pusher sent, or asked for, can not be had.
ClientError == {"PreCompressed", "Narinfo", "UnknownNar", "NarSizeMismatch",
                "HashMismatch", "Empty"}

\* The staging file, the encoder or the index failed.
ServerError == {"Stage", "Compress", "Record", "Index"}

\* Everything that fails is put on the pusher.
FaultOf_Client(error) == "Client"

\* Error::fault
FaultOf(error) == CASE error \in ClientError -> "Client"
                    [] error \in ServerError -> "Server"

\* Refusal::new
StatusOf(error) == IF FaultOf(error) = "Client" THEN 400 ELSE 500

=============================================================================
