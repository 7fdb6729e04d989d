---------------------------- MODULE ClientUpload ----------------------------
(***************************************************************************)
(* Firmware and bootblock images sent to a dispensing point (BDP) or a key *)
(* reader (KR) by an application (src/src/svsApi.c: svsBdpFirmwareUpgrade, *)
(* svsBdpBootblockUpload, svsKrFirmwareUpgrade, svsKrBootblockUpload).     *)
(*                                                                         *)
(* The file is cut in blocks of FIRMWARE_IMAGE_BLOCK_MAX octets.  A block  *)
(* is repeated until the device takes it or its tries are used up; the     *)
(* image ends at a block that is not full, which is empty when the size of *)
(* the file is a multiple of the block.  An answer may be lost after its   *)
(* block was stored, so that a repeated block may come twice.              *)
(***************************************************************************)
EXTENDS Integers

CONSTANTS
    Sizes,      \* sizes of the files, in the unit of Block
    Block,      \* FIRMWARE_IMAGE_BLOCK_MAX
    Retries,    \* what a caller may give as data->retries, a uint8_t
    MaxFaults,  \* bound: exchanges that fail, in a behaviour
    MaxUploads  \* bound: uploads in a behaviour

UploadConstants ==
    /\ Sizes \subseteq Nat
    /\ Block \in Nat \ {0}
    /\ Retries \subseteq 0..255
    /\ MaxFaults \in Nat
    /\ MaxUploads \in Nat

Functions == {"BdpFirmware", "BdpBootblock", "KrFirmware", "KrBootblock"}

Results == {"ERR_PASS", "ERR_FAIL", "ERR_COMMS_TIMEOUT", "ERR_DEVICE",
            "uninitialised"}

VARIABLES
    uploadPc,        \* where the call is
    uploadFn,        \* the function called
    size,            \* the size of the file
    retries,         \* data->retries
    offset,          \* req.offset
    len,             \* req.len, the block just read
    lastLen,         \* last_len
    tries,           \* transmissions of this block
    erasing,         \* the first block's time-out, timeout_erase, applies
    uploadRc,
    stored,          \* octets of the image in the device
    ended,           \* the device has seen the end of the image
    faults, uploads  \* counters of the bounds

vars == <<uploadPc, uploadFn, size, retries, offset, len, lastLen, tries, erasing, uploadRc,
          stored, ended, faults, uploads>>

TypeOK ==
    /\ uploadPc \in {"idle", "available", "open", "read", "send", "sent",
              "done"}
    /\ uploadFn \in Functions
    /\ size \in Nat
    /\ retries \in 0..255
    /\ offset \in Nat
    /\ len \in 0..Block
    /\ lastLen \in 0..Block
    /\ tries \in 0..255
    /\ erasing \in BOOLEAN
    /\ uploadRc \in Results
    /\ stored \in Nat
    /\ ended \in BOOLEAN
    /\ faults \in 0..MaxFaults
    /\ uploads \in 0..MaxUploads

Init ==
    /\ uploadPc = "idle"
    /\ uploadFn = "BdpFirmware"
    /\ size = 0 /\ retries = 0
    /\ offset = 0 /\ len = 0 /\ lastLen = 0 /\ tries = 0
    /\ erasing = FALSE
    /\ uploadRc = "uninitialised"
    /\ stored = 0
    /\ ended = FALSE
    /\ faults = 0
    /\ uploads = 0

(* A file name was given; a device starts a new image at offset 0.         *)
Begin(f) ==
    /\ uploadPc = "idle"
    /\ uploads < MaxUploads
    /\ uploads' = uploads + 1
    /\ uploadFn' = f
    /\ size' \in Sizes
    /\ retries' \in Retries
    /\ offset' = 0 /\ len' = 0 /\ lastLen' = 0 /\ tries' = 0
    /\ erasing' = TRUE
    /\ uploadRc' = "uninitialised"
    /\ stored' = 0
    /\ ended' = FALSE
    /\ uploadPc' = IF f = "KrFirmware" THEN "open" ELSE "available"
    /\ UNCHANGED faults

(* svsBdpAvailableGet or svsKrAvailableGet, and the check of the number.   *)
CheckNumber ==
    /\ uploadPc = "available"
    /\ \/ /\ uploadPc' = "open"
          /\ uploadRc' = "ERR_PASS"
       \/ /\ uploadPc' = "done"           \* no answer, or a number out of range
          /\ uploadRc' = "ERR_FAIL"
    /\ UNCHANGED <<uploadFn, size, retries, offset, len, lastLen, tries, erasing,
                   stored, ended, faults, uploads>>

OpenFile ==
    /\ uploadPc = "open"
    /\ \/ /\ uploadPc' = "read"
          /\ UNCHANGED uploadRc
       \/ /\ uploadPc' = "done"
          /\ uploadRc' = "ERR_FAIL"
    /\ UNCHANGED <<uploadFn, size, retries, offset, len, lastLen, tries, erasing,
                   stored, ended, faults, uploads>>

(* What fread returns at req.offset; feof() is set when it is short.       *)
Chunk == IF size - offset < Block THEN size - offset ELSE Block

(* Mutant: the end of the file always ends the loop.                       *)
ReadBlockNoEnd ==
    /\ uploadPc = "read"
    /\ IF Chunk < Block
       THEN uploadPc' = "done" /\ UNCHANGED <<len, tries, uploadRc>>
       ELSE len' = Chunk /\ tries' = 0 /\ uploadPc' = "send" /\ UNCHANGED uploadRc
    /\ UNCHANGED <<uploadFn, size, retries, offset, lastLen, erasing, stored, ended,
                   faults, uploads>>

(* A short block is sent only behind a full one.                           *)
ReadBlock ==
    /\ uploadPc = "read"
    /\ \/ /\ Chunk < Block /\ lastLen # Block
          /\ uploadPc' = "done"
          /\ UNCHANGED <<len, tries, uploadRc>>
       \/ /\ Chunk = Block \/ lastLen = Block
          /\ len' = Chunk
          /\ tries' = 0
          /\ uploadPc' = "send"
          /\ UNCHANGED uploadRc
       \/ /\ uploadRc' = "ERR_FAIL"       \* ferror()
          /\ uploadPc' = "done"
          /\ UNCHANGED <<len, tries>>
    /\ UNCHANGED <<uploadFn, size, retries, offset, lastLen, erasing, stored, ended,
                   faults, uploads>>

(* A device writes a block where its offset says, and knows the end of the *)
(* image by a block that is not full.                                      *)
Store ==
    /\ stored' = IF offset <= stored /\ offset + len > stored
                 THEN offset + len ELSE stored
    /\ ended' = (ended \/ len < Block)

(* One transmission and its answer.                                        *)
SendBlock ==
    /\ uploadPc = "send"
    /\ tries < retries \/ tries = 0
    /\ tries' = tries + 1
    /\ \/ Store /\ uploadRc' = "ERR_PASS" /\ UNCHANGED faults
       \/ /\ faults < MaxFaults
          /\ faults' = faults + 1
          /\ \/ Store /\ uploadRc' = "ERR_COMMS_TIMEOUT"    \* the answer is lost
             \/ uploadRc' = "ERR_COMMS_TIMEOUT" /\ UNCHANGED <<stored, ended>>
             \/ uploadRc' = "ERR_DEVICE" /\ UNCHANGED <<stored, ended>>
    /\ uploadPc' = IF tries' < retries /\ uploadRc' # "ERR_PASS" THEN "send" ELSE "sent"
    /\ UNCHANGED <<uploadFn, size, retries, offset, len, lastLen, erasing, uploads>>

(* Behind the block: the time-out changes and the loop's condition.        *)
NextBlock ==
    /\ uploadPc = "sent"
    /\ erasing' = FALSE
    /\ offset' = offset + len
    /\ lastLen' = len
    /\ uploadPc' = IF uploadRc = "ERR_PASS" /\ len > 0 THEN "read" ELSE "done"
    /\ UNCHANGED <<uploadFn, size, retries, len, tries, uploadRc, stored, ended, faults,
                   uploads>>

Return ==
    /\ uploadPc = "done"
    /\ uploadPc' = "idle"
    /\ UNCHANGED <<uploadFn, size, retries, offset, len, lastLen, tries, erasing, uploadRc,
                   stored, ended, faults, uploads>>

(* One of the four functions: they differ in their first checks only.      *)
Upload(f) ==
    \/ Begin(f)
    \/ /\ uploadFn = f
       /\ \/ CheckNumber \/ OpenFile \/ ReadBlock
          \/ SendBlock \/ NextBlock \/ Return

svsBdpFirmwareUpgrade == Upload("BdpFirmware")

svsBdpBootblockUpload == Upload("BdpBootblock")

svsKrFirmwareUpgrade == Upload("KrFirmware")

svsKrBootblockUpload == Upload("KrBootblock")

Next == \/ svsBdpFirmwareUpgrade \/ svsBdpBootblockUpload
        \/ svsKrFirmwareUpgrade \/ svsKrBootblockUpload

Spec == Init /\ [][Next]_vars

-----------------------------------------------------------------------------
(* An upload of at least one block that returns ERR_PASS has put the whole *)
(* file and the end of the image in the device, whatever was lost and      *)
(* repeated on the way (the loop of svsApi.c:970-1025).  A smaller file is *)
(* never sent: the test at 979 ends the loop before the first block.       *)
Uploaded ==
    uploadPc = "done" /\ uploadRc = "ERR_PASS" /\ size >= Block
        => stored = size /\ ended

=============================================================================
