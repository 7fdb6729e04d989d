------------------------------- MODULE Client -------------------------------
(***************************************************************************)
(* The client library: transfers (ClientTransfer), the calls made of them  *)
(* (ClientCalls) and uploads (ClientUpload) side by side.  They share no   *)
(* variable: a behaviour is about one of them, chosen at the start.        *)
(***************************************************************************)
EXTENDS ClientTransfer

CONSTANTS
    BDP_MAX, KR_MAX, NUM_ALL, MaxCalls,
    Sizes, Block, Retries, MaxFaults, MaxUploads

VARIABLES
    which,          \* "transfer", "call" or "upload"
    pc, fn, arg, count, seen, done, rc, out, calls,
    uploadPc, uploadFn, size, retries, offset, len, lastLen, tries, erasing,
    uploadRc, stored, ended, faults, uploads

Api == INSTANCE ClientCalls

Image == INSTANCE ClientUpload

ASSUME ClientBounds == Api!CallConstants /\ Image!UploadConstants

apiVars == <<pc, fn, arg, count, seen, done, rc, out, calls>>
imageVars ==
    <<uploadPc, uploadFn, size, retries, offset, len, lastLen, tries, erasing,
      uploadRc, stored, ended, faults, uploads>>
allVars == <<which, vars, apiVars, imageVars>>

SumInit ==
    /\ which \in {"transfer", "call", "upload"}
    /\ Init
    /\ Api!Init
    /\ Image!Init

Transferring(A) == which = "transfer" /\ A /\ UNCHANGED <<which, apiVars, imageVars>>

Calling(A) == which = "call" /\ A /\ UNCHANGED <<which, vars, imageVars>>

Uploading(A) == which = "upload" /\ A /\ UNCHANGED <<which, vars, apiVars>>

SumNext == Transferring(Next) \/ Calling(Api!Next) \/ Uploading(Image!Next)

(* The fairness of ClientTransfer.                                         *)
SumSpec ==
    /\ SumInit
    /\ [][SumNext]_allVars
    /\ \A t \in Threads : WF_allVars(Transferring(Transfer(t)))

-----------------------------------------------------------------------------
(* The state of the three modules has its type.                            *)
TypesOK == TypeOK /\ Api!TypeOK /\ Image!TypeOK

(* A call that waited and returned ERR_PASS was carried out, and the       *)
(* caller's data are the answer (svsApi.c: "rc = rsp.status").             *)
CallsHonest == Api!PassMeansDone /\ Api!Filled

(* An upload that returns ERR_PASS has put the whole file in the device    *)
(* (the loop of svsApi.c:970-1025).                                        *)
Uploaded == Image!Uploaded
=============================================================================
