--------------------------- MODULE MCMessageStore ---------------------------
(* Small instances of MessageStore for TLC.                                  *)
EXTENDS MessageStore

CONSTANTS s1, m1, image, video, jpg, mp4

\* The two attachments of the MMS are of two types.
MCAttachmentsOf == [t \in Mms |-> Attachment]
MCTypeOf == [a \in Attachment |-> IF a = image THEN jpg ELSE mp4]
\* A retried SMS is one more message like any other; a retried MMS is not.
MCBudget == [t \in Text |-> IF t \in Mms THEN 2 ELSE 1]
=============================================================================
