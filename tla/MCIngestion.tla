---------------------------- MODULE MCIngestion ----------------------------
(* Bounded instances of the ingestion of documents.                        *)
EXTENDS Ingestion, TLC

CONSTANTS f1, f2, f3, r1, r2

\* One upload of two files and one web link whose URL is the first file's name.
OneUpload == r1 :> <<f1, f2>>

\* Two uploads whose files are read in turn, queueing for the same worker.
TwoUploads == (r1 :> <<f1, f2>>) @@ (r2 :> <<f3>>)

MCNameOf == (f1 :> "a") @@ (f2 :> "b") @@ (f3 :> "a")
=============================================================================
