------------------------------ MODULE SwUpdate ------------------------------
(***************************************************************************)
(* Installing an upgrade package: performUpdate, decryptPackage,           *)
(* shouldUpdate and versionCompare (upgrade/swupdate.c), and the script of *)
(* the package that performUpdate starts (external).                       *)
(*                                                                         *)
(* A package is told apart by its number, its version, whether its CRC is  *)
(* right, and what is in it.  Files that are left over from one update to  *)
(* the next are state: the stripped package beside the original, the       *)
(* decrypted archive and what is extracted from it.  A package in the      *)
(* encrypted form may be built badly, so that its parts miss.              *)
(*                                                                         *)
(* A version is three numbers, or NoVersion for a string that is empty or  *)
(* not there.                                                              *)
(***************************************************************************)
EXTENDS Integers

CONSTANTS
  Versions,    \* the versions of packages and machines
  MaxInstalls  \* bound on the updates

UpdateConstants == Versions \subseteq [major : Nat, minor : Nat, point : Nat] /\ MaxInstalls \in Nat

NoVersion == [major |-> -1, minor |-> -1, point |-> -1]

----------------------------------------------------------------------------
(* Comparing versions                                                      *)

\* atoi of the text that begins at the '.' just replaced by the end of the string: 0, or
\* -1 where there is no '.'
majorVersionValue(v) == IF v = NoVersion THEN -1 ELSE 0
minorVersionValue(v) == v.minor
pointVersionValue(v) == v.point

Sign(a, b) == IF a < b THEN -1 ELSE IF a > b THEN 1 ELSE 0

versionCompare(v, w) ==
  IF v = w THEN 0
  ELSE IF v = NoVersion THEN -1
  ELSE IF w = NoVersion THEN 1
  ELSE LET M == Sign(majorVersionValue(v), majorVersionValue(w))
           m == Sign(minorVersionValue(v), minorVersionValue(w))
           p == Sign(pointVersionValue(v), pointVersionValue(w))
       IN IF M # 0 THEN M ELSE IF m # 0 THEN m ELSE p

----------------------------------------------------------------------------

VARIABLES
  installPc,
  pkg,        \* the package that is looked at
  enc,        \* number of the package whose .enc file is there, 0 for none
  archive,    \* the decrypted archive in UPDATE_TEMP_DIR
  temp,       \* what has been extracted to TMPFILESDIR: versions.xml and the scripts
  installed,  \* the software of the machine: its versions.xml and the package it is from
  scripts,    \* upgrade scripts that run
  installRet,
  installs,   \* number of updates so far
  overlap     \* an update was begun while a script ran

vars == <<installPc, pkg, enc, archive, temp, installed, scripts, installRet, installs, overlap>>

Parts == {"versions", "dobackup", "upgrade"}
NoPackage == [id |-> 0, version |-> NoVersion, crc |-> FALSE, parts |-> {}]
Package(i) ==
  [id : {i}, version : Versions \cup {NoVersion}, crc : BOOLEAN,
   parts : {{}, {"versions"}, {"versions", "dobackup"}, Parts}]

\* versions.xml: not there, without root or version element, or read; it may then still lack
\* a release version
Init ==
  /\ installPc = "idle" /\ pkg = NoPackage /\ enc = 0 /\ archive = NoPackage
  /\ temp = [versions |-> 0, version |-> NoVersion, upgrade |-> 0]
  /\ installed \in [xml : {"none", "bad"}, version : {NoVersion}, from : {0}]
                     \cup [xml : {"good"}, version : Versions \cup {NoVersion}, from : {0}]
  /\ scripts = {} /\ installRet = "none" /\ installs = 0 /\ overlap = FALSE

Leave(r) == installPc' = "idle" /\ installRet' = r

\* mutant: the CRC is not looked at
performUpdateNoCrc(p) ==
  /\ installPc = "idle" /\ installs < MaxInstalls
  /\ installs' = installs + 1 /\ pkg' = p
  /\ overlap' = (overlap \/ scripts # {})
  /\ \/ Leave("ERR_PKG_FILE_NOT_FOUND") \/ Leave("ERR_PKG_FILE_READ")
     \/ installPc' = "write" /\ UNCHANGED installRet
  /\ UNCHANGED <<enc, archive, temp, installed, scripts>>

\* the package is read; nothing is written before its CRC is checked
performUpdate(p) ==
  /\ installPc = "idle" /\ installs < MaxInstalls
  /\ installs' = installs + 1 /\ pkg' = p
  /\ overlap' = (overlap \/ scripts # {})
  /\ \/ Leave("ERR_PKG_FILE_NOT_FOUND") \/ Leave("ERR_PKG_FILE_READ")
     \/ ~p.crc /\ Leave("ERR_PKG_FILE_CRC")
     \/ p.crc /\ installPc' = "write" /\ UNCHANGED installRet
  /\ UNCHANGED <<enc, archive, temp, installed, scripts>>

\* the package without its CRC, in a file beside it
writeEnc ==
  /\ installPc = "write"
  /\ \/ Leave("ERR_PKG_ENC_FILE_OPEN") /\ UNCHANGED enc
     \/ Leave("ERR_PKG_ENC_FILE_READ") /\ enc' = 0
     \/ installPc' = "decrypt" /\ enc' = pkg.id /\ UNCHANGED installRet
  /\ UNCHANGED <<pkg, archive, temp, installed, scripts, installs, overlap>>

\* a key that is missing or wrong, or a package that cannot be decrypted or unpacked, which
\* may leave part of an archive behind
decryptPackage ==
  /\ installPc = "decrypt" /\ enc' = 0
  /\ \/ Leave("ERR_SWUPDATE_DECRYPTION") /\ archive' \in {archive, NoPackage}
     \/ installPc' = "versions" /\ archive' = pkg /\ UNCHANGED installRet
  /\ UNCHANGED <<pkg, temp, installed, scripts, installs, overlap>>

\* tar finds a part of the archive, or fails
Extract(part, next) ==
  \/ Leave("ERR_SWUPDATE_EXTRACTION") /\ UNCHANGED temp
  \/ /\ part \in archive.parts
     /\ temp' = CASE part = "versions" ->
                      [temp EXCEPT !.versions = archive.id, !.version = archive.version]
                  [] part = "upgrade" -> [temp EXCEPT !.upgrade = archive.id]
                  [] OTHER -> temp
     /\ installPc' = next /\ UNCHANGED installRet

ExtractStep == UNCHANGED <<pkg, enc, archive, installed, scripts, installs, overlap>>

extractVersions == installPc = "versions" /\ Extract("versions", "compare") /\ ExtractStep
extractBackup == installPc = "dobackup" /\ Extract("dobackup", "upgrade") /\ ExtractStep
extractUpgrade == installPc = "upgrade" /\ Extract("upgrade", "fork") /\ ExtractStep

\* without a current versions.xml whatever comes is installed
shouldUpdate ==
  \/ installed.xml = "none"
  \/ /\ installed.xml = "good"
     /\ temp.version # NoVersion
     /\ versionCompare(temp.version, installed.version) # 0

compareVersions ==
  /\ installPc = "compare"
  /\ IF shouldUpdate THEN installPc' = "dobackup" /\ UNCHANGED installRet
                     ELSE Leave("ERR_VERSION_IS_CURRENT")
  /\ UNCHANGED <<pkg, enc, archive, temp, installed, scripts, installs, overlap>>

\* the script is started, or cannot be, which changes nothing in the result
forkUpgrade ==
  /\ installPc = "fork"
  /\ scripts' \in {scripts, scripts \cup {temp.upgrade}}
  /\ Leave("SWUPDATE_SUCCESS")
  /\ UNCHANGED <<pkg, enc, archive, temp, installed, installs, overlap>>

\* the script stops the upgrade manager, wherever it is, and installs the archive; the
\* machine then starts again
upgradeScript ==
  /\ scripts # {}
  /\ installPc' = "idle" /\ scripts' = {}
  /\ installed' = IF archive = NoPackage THEN installed
                  ELSE [xml |-> "good", version |-> archive.version, from |-> archive.id]
  /\ UNCHANGED <<pkg, enc, archive, temp, installRet, installs, overlap>>

Update ==
  \/ writeEnc \/ decryptPackage \/ extractVersions \/ compareVersions
  \/ extractBackup \/ extractUpgrade \/ forkUpgrade

Next == Update \/ upgradeScript \/ \E p \in Package(installs + 1) : performUpdate(p)

Spec == Init /\ [][Next]_vars

----------------------------------------------------------------------------

TypeOK ==
  /\ installPc \in {"idle", "write", "decrypt", "versions", "compare", "dobackup", "upgrade",
                    "fork"}
  /\ pkg.id \in 0..MaxInstalls /\ enc \in 0..MaxInstalls /\ archive.id \in 0..MaxInstalls
  /\ temp.versions \in 0..MaxInstalls /\ temp.upgrade \in 0..MaxInstalls
  /\ installed.from \in 0..MaxInstalls /\ scripts \subseteq 0..MaxInstalls
  /\ installs \in 0..MaxInstalls /\ overlap \in BOOLEAN

\* The script that is started, and the archive it will install, are of the same package,
\* whose CRC was right, which was complete and whose version is not the one installed, if
\* that is known; files left over from other packages do not take part, unless an update
\* begins while the script runs.
Installs ==
  scripts # {} /\ ~overlap =>
    /\ scripts = {archive.id} /\ temp.upgrade = archive.id /\ temp.versions = archive.id
    /\ archive.crc /\ archive.parts = Parts
    /\ installed.xml = "none" \/ archive.version # installed.version
    /\ enc = 0

=============================================================================
