---------------------------- MODULE CardCommand ----------------------------
(***************************************************************************)
(* The commands the card manager gives the reader, and what it makes of    *)
(* the replies: ccr.origin/Command.c.                                      *)
(*                                                                         *)
(* CommandAuto returns the status or the negated error of a reply.  A      *)
(* command without a reply (time-out, cancelled, port closed) gives 0,     *)
(* which its callers take for success without data; one that was not even  *)
(* acknowledged gives a positive number, which most of them take for       *)
(* success as well.                                                        *)
(*                                                                         *)
(* Keys are told apart only by whether the reader has the one the host     *)
(* uses now, cards by whether they are the one inserted last.              *)
(***************************************************************************)
EXTENDS Naturals, Sequences

CONSTANTS
  MaxLost,  \* bound on the commands whose reply, or which themselves, are lost
  MaxCards  \* bound on the cards inserted

CommandConstants == MaxLost \in Nat /\ MaxCards \in Nat

VARIABLES
  pc,         \* the command that is executed next, or "idle", "report"
  queries,    \* what getModelSerialNumber and getFirmwareVersions still have to ask
  known,      \* what the reader answered: model, serial number, versions
  challenge,  \* the host has decrypted the reader's challenge
  initialized, authorized,
  track,      \* the track that is read
  tracks,     \* TrackData
  reader,     \* the reader's keys, and the card in its buffer
  cards,      \* number of cards inserted so far
  missed,     \* a command of this card was lost
  lost

vars == <<pc, queries, known, challenge, initialized, authorized, track, tracks, reader,
          cards, missed, lost>>

host == <<queries, known, challenge, initialized, authorized>>

\* km: the reader has the master key KeyKm; ke, kwa, magke, kwm: it has the host's key of
\* this name; inside: a card is in the slot; card: the card whose tracks are in the buffer
Blank == [km |-> TRUE, ke |-> FALSE, kwa |-> FALSE, accepted |-> FALSE, magke |-> FALSE,
          kwm |-> FALSE, inside |-> FALSE, card |-> 0]

NoTrack == [status |-> "none", card |-> 0, clear |-> FALSE]

Init ==
  /\ pc = "idle" /\ queries = <<>> /\ known = {} /\ challenge = FALSE
  /\ initialized = FALSE /\ authorized = FALSE
  /\ track = 0 /\ tracks = [i \in 1..3 |-> NoTrack]
  /\ reader \in {[Blank EXCEPT !.km = k] : k \in BOOLEAN}
  /\ cards = 0 /\ missed = FALSE /\ lost = 0

ModelSerialNumber == <<"CMD_INFO_MODEL", "CMD_INFO_SN">>
FirmwareVersions ==
  <<"CMD_GET_USER_FW_VERS", "CMD_GET_SUPER_FW_VERS", "CMD_GET_EMV2000_FW_VERS",
    "CMD_GET_SECCPU_SUPER_FW_VERS", "CMD_GET_SECCPU_USER_FW_VERS">>

\* what a command asks of the reader, and with which data
Executed(cmd) ==
  CASE cmd = "CMD_SEND_KeyKe"   -> [reader EXCEPT !.ke = reader.km]
    [] cmd = "CMD_SEND_KeyKwa"  -> [reader EXCEPT !.kwa = reader.ke]
    [] cmd = "CMD_DEV_AUTH"     -> [reader EXCEPT !.accepted = @ \/ (reader.kwa /\ challenge)]
    [] cmd = "CMD_MAG_DATA_KE"  -> [reader EXCEPT !.magke = reader.km]
    [] cmd = "CMD_MAG_DATA_KEY" -> [reader EXCEPT !.kwm = reader.magke]
    [] cmd = "CMD_RESET"        -> [reader EXCEPT !.accepted = FALSE, !.card = 0]
    [] cmd = "CMD_ZAP_READER_LOCK" -> [reader EXCEPT !.km = FALSE]
    [] cmd = "CMD_IMPORT_CUSTOMER_MASTER_KEY" -> [reader EXCEPT !.km = TRUE]
    [] cmd = "CMD_INTAKE"       -> [reader EXCEPT !.inside = TRUE, !.card = 0]
    [] cmd = "CMD_WITHDRAW"     -> [reader EXCEPT !.inside = FALSE,
                                                  !.card = IF reader.inside THEN cards ELSE 0]
    [] OTHER -> reader

\* the reader may refuse any command, and refuses what makes no sense
Refuses(cmd) ==
  \/ cmd = "CMD_DEV_AUTH" /\ ~(reader.kwa /\ challenge)
  \/ cmd = "CMD_WITHDRAW" /\ ~reader.inside
  \/ cmd = "CMD_MAG_TRACK_READ" /\ reader.card = 0

Outcome(cmd, done, reply, l) ==
  [reader |-> IF done THEN Executed(cmd) ELSE reader, done |-> done, reply |-> reply, lost |-> l]

Answers(cmd) ==
  {Outcome(cmd, FALSE, "negative", lost)}
    \cup (IF Refuses(cmd) THEN {} ELSE {Outcome(cmd, TRUE, "positive", lost)})

\* the command was perhaps executed, but no reply came, or no acknowledgement either
Losses(cmd) ==
  IF lost < MaxLost
  THEN {Outcome(cmd, d /\ ~Refuses(cmd), r, lost + 1) :
          d \in BOOLEAN, r \in {"no_reply", "no_ack"}}
  ELSE {}

CommandAuto(cmd) == Answers(cmd) \cup Losses(cmd)

\* result < 0, the test most callers make
Error(o) == o.reply = "negative"
\* result # 0, the test on initCardReader
NotZero(o) == o.reply \in {"negative", "no_ack"}
Data(o) == o.reply = "positive"

Commanded(o) ==
  /\ reader' = o.reader /\ lost' = o.lost
  /\ missed' = (missed \/ o.lost # lost)

----------------------------------------------------------------------------
(* initCardReader, getModelSerialNumber, getFirmwareVersions               *)

initCardReader ==
  /\ pc = "idle" /\ ~initialized
  /\ \E o \in CommandAuto("CMD_INIT") : Commanded(o) /\ pc' = IF Error(o) THEN "idle" ELSE "led"
  /\ UNCHANGED <<host, track, tracks, cards>>

initLED ==
  /\ pc = "led"
  /\ \E o \in CommandAuto("CMD_LED") :
       /\ Commanded(o)
       /\ initialized' = ~NotZero(o)
       /\ authorized' = (NotZero(o) /\ authorized)
       /\ pc' = IF NotZero(o) THEN "idle" ELSE "query"
       /\ queries' = ModelSerialNumber /\ known' = {}
  /\ UNCHANGED <<challenge, track, tracks, cards>>

getFirmwareVersions ==
  /\ pc = "idle" /\ authorized
  /\ queries' = FirmwareVersions /\ pc' = "query"
  /\ known' = known \cap {"CMD_INFO_MODEL", "CMD_INFO_SN"}
  /\ UNCHANGED <<challenge, initialized, authorized, track, tracks, reader, cards, missed, lost>>

\* an error ends the queries; one without a reply leaves its field empty
Query ==
  /\ pc = "query"
  /\ \E o \in CommandAuto(Head(queries)) :
       /\ Commanded(o)
       /\ known' = known \cup (IF Data(o) THEN {Head(queries)} ELSE {})
       /\ queries' = IF Error(o) THEN <<>> ELSE Tail(queries)
       /\ pc' = IF queries' = <<>> THEN "idle" ELSE "query"
  /\ UNCHANGED <<challenge, initialized, authorized, track, tracks, cards>>

----------------------------------------------------------------------------
(* authenticateReader: two new keys, the reader's challenge, and the       *)
(* host's in return                                                        *)

authenticateReader ==
  /\ pc = "idle" /\ initialized /\ ~authorized
  /\ reader' = [reader EXCEPT !.ke = FALSE, !.kwa = FALSE]
  /\ challenge' = FALSE /\ pc' = "ke"
  /\ UNCHANGED <<queries, known, initialized, authorized, track, tracks, cards, missed, lost>>

\* a failed authentication resets the reader and makes it uninitialised
SendKey(at, cmd, next) ==
  /\ pc = at
  /\ \E o \in CommandAuto(cmd) : Commanded(o) /\ pc' = IF Error(o) THEN "reset" ELSE next
  /\ UNCHANGED <<host, track, tracks, cards>>

SendKeyKe == SendKey("ke", "CMD_SEND_KeyKe", "kwa")
SendKeyKwa == SendKey("kwa", "CMD_SEND_KeyKwa", "challenge")

\* without data an old challenge is decrypted with the new key
GetChallenge ==
  /\ pc = "challenge"
  /\ \E o \in CommandAuto("CMD_GET_CHALLENGE") :
       /\ Commanded(o)
       /\ challenge' = (Data(o) /\ reader.kwa)
       /\ pc' = IF Error(o) THEN "reset" ELSE "devauth"
  /\ UNCHANGED <<queries, known, initialized, authorized, track, tracks, cards>>

\* mutant: no reply is no error here either
DevAuthTrusting ==
  /\ pc = "devauth"
  /\ \E o \in CommandAuto("CMD_DEV_AUTH") :
       /\ Commanded(o)
       /\ authorized' = ~Error(o)
       /\ pc' = IF Error(o) THEN "reset" ELSE "idle"
  /\ UNCHANGED <<queries, known, challenge, initialized, track, tracks, cards>>

\* without data the host finds its own signature where RndDt_B should be
DevAuth ==
  /\ pc = "devauth"
  /\ \E o \in CommandAuto("CMD_DEV_AUTH") :
       /\ Commanded(o)
       /\ authorized' = Data(o)
       /\ pc' = IF Data(o) THEN "idle" ELSE "reset"
  /\ UNCHANGED <<queries, known, challenge, initialized, track, tracks, cards>>

resetReader ==
  /\ pc = "reset"
  /\ \E o \in CommandAuto("CMD_RESET") : Commanded(o)
  /\ initialized' = FALSE /\ authorized' = FALSE /\ pc' = "idle"
  /\ UNCHANGED <<queries, known, challenge, track, tracks, cards>>

\* the two functions of the operator, who commissions a reader before it is used
ZapReaderLock ==
  /\ pc = "idle" /\ ~initialized
  /\ \E o \in CommandAuto("CMD_ZAP_READER_LOCK") : Commanded(o)
  /\ UNCHANGED <<pc, host, track, tracks, cards>>

SetNewMasterKey ==
  /\ pc = "idle" /\ ~initialized
  /\ \E o \in CommandAuto("CMD_IMPORT_CUSTOMER_MASTER_KEY") : Commanded(o)
  /\ UNCHANGED <<pc, host, track, tracks, cards>>

----------------------------------------------------------------------------
(* A card: intakeCommand, withdrawCommand, Read3Tracks                     *)

\* the result of the initialise command is not looked at
intakeCommand ==
  /\ pc = "idle" /\ initialized /\ authorized /\ cards < MaxCards
  /\ \E o \in CommandAuto("CMD_INIT") :
       reader' = o.reader /\ lost' = o.lost /\ missed' = (o.lost # lost)
  /\ pc' = "intake" /\ tracks' = [i \in 1..3 |-> NoTrack]
  /\ UNCHANGED <<host, track, cards>>

\* only the error of a time-out, or one that withdrawCommand is left to find out
Intake ==
  /\ pc = "intake"
  /\ cards' = cards + 1
  /\ \E o \in CommandAuto("CMD_INTAKE") :
       /\ Commanded(o)
       /\ pc' \in IF Error(o) THEN {"idle", "withdraw"} ELSE {"withdraw"}
  /\ UNCHANGED <<host, track, tracks>>

withdrawCommand ==
  /\ pc = "withdraw"
  /\ \E o \in CommandAuto("CMD_WITHDRAW") :
       Commanded(o) /\ pc' = IF Error(o) THEN "idle" ELSE "magke"
  /\ track' = 1
  /\ UNCHANGED <<host, tracks, cards>>

\* the next track, or the report; the track's status and length
TrackDone(status, data) ==
  /\ tracks' = [tracks EXCEPT ![track] =
                  [status |-> status, card |-> IF data THEN reader.card ELSE 0,
                   clear |-> data /\ reader.kwm]]
  /\ track' = IF track = 3 THEN 0 ELSE track + 1
  /\ pc' = IF track = 3 THEN "report" ELSE "magke"

\* ReadEncryptedTrack: a new key for each track, which the old ones are no good for
SendMagKe ==
  /\ pc = "magke"
  /\ \E o \in CommandAuto("CMD_MAG_DATA_KE") :
       /\ reader' = [o.reader EXCEPT !.magke = @ /\ o.done, !.kwm = FALSE]
       /\ lost' = o.lost /\ missed' = (missed \/ o.lost # lost)
       /\ IF Error(o)
          THEN TrackDone("error", FALSE) ELSE pc' = "magkey" /\ UNCHANGED <<track, tracks>>
  /\ UNCHANGED <<host, cards>>

SendMagKey ==
  /\ pc = "magkey"
  /\ \E o \in CommandAuto("CMD_MAG_DATA_KEY") :
       /\ Commanded(o)
       /\ IF Error(o)
          THEN TrackDone("error", FALSE) ELSE pc' = "track" /\ UNCHANGED <<track, tracks>>
  /\ UNCHANGED <<host, cards>>

\* without a reply there are no data and no error
ReadTrack ==
  /\ pc = "track"
  /\ \E o \in CommandAuto("CMD_MAG_TRACK_READ") :
       /\ Commanded(o)
       /\ TrackDone(IF Error(o) THEN "error" ELSE "ok", Data(o))
  /\ UNCHANGED <<host, cards>>

\* Read3Tracks returns SUCCESS whatever the tracks gave
Read3Tracks ==
  /\ pc = "report" /\ pc' = "idle"
  /\ UNCHANGED <<host, track, tracks, reader, cards, missed, lost>>

Standby ==
  /\ pc = "idle" /\ initialized
  /\ initialized' = FALSE /\ authorized' = FALSE
  /\ reader' = [reader EXCEPT !.accepted = FALSE]
  /\ UNCHANGED <<pc, queries, known, challenge, track, tracks, cards, missed, lost>>

----------------------------------------------------------------------------

Prepare ==
  \/ initLED \/ Query \/ SendKeyKe \/ SendKeyKwa \/ GetChallenge \/ DevAuth \/ resetReader
Card == Intake \/ withdrawCommand \/ SendMagKe \/ SendMagKey \/ ReadTrack \/ Read3Tracks

Next ==
  \/ initCardReader \/ getFirmwareVersions \/ authenticateReader \/ Prepare
  \/ ZapReaderLock \/ SetNewMasterKey \/ intakeCommand \/ Card \/ Standby

Spec == Init /\ [][Next]_vars

----------------------------------------------------------------------------

Queries == {ModelSerialNumber[i] : i \in 1..2} \cup {FirmwareVersions[i] : i \in 1..5}

TypeOK ==
  /\ pc \in {"idle", "led", "query", "ke", "kwa", "challenge", "devauth", "reset", "intake",
             "withdraw", "magke", "magkey", "track", "report"}
  /\ queries \in Seq(Queries) /\ known \subseteq Queries
  /\ {challenge, initialized, authorized, missed} \subseteq BOOLEAN
  /\ track \in 0..3 /\ cards \in 0..MaxCards /\ lost \in 0..MaxLost
  /\ tracks \in [1..3 -> [status : {"none", "ok", "error"}, card : 0..MaxCards, clear : BOOLEAN]]
  /\ reader \in [km : BOOLEAN, ke : BOOLEAN, kwa : BOOLEAN, accepted : BOOLEAN,
                 magke : BOOLEAN, kwm : BOOLEAN, inside : BOOLEAN, card : 0..MaxCards]

\* The manager takes for authentic only a reader that has both new keys and accepted the
\* host's signature, although every step before the last goes on when its reply is lost.
AuthSound == authorized => reader.ke /\ reader.kwa /\ reader.accepted

\* A track that is reported as read is a track of the card inserted last, in clear text,
\* unless a command about this card was lost.
TrackSound ==
  pc = "report" /\ ~missed =>
    \A i \in 1..3 : tracks[i].status = "ok" => tracks[i].card = cards /\ tracks[i].clear

=============================================================================
