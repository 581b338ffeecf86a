---------------------------- MODULE UpdateAssets ----------------------------
(***************************************************************************)
(* Which release file an installation takes and what it checks it against: *)
(* packaging.rs, asset.rs, release.rs and verify.rs under                  *)
(* crates/gashuu-core/src/update, and download_and_verify in               *)
(* crates/gashuu/src/handlers/update.rs.  UpdateFlow has the downloads.    *)
(* A path is what the code looks for in it; a file name is its lower-case  *)
(* form, as the platform words it contains and its extension.              *)
(***************************************************************************)
EXTENDS Integers, Sequences, SequencesExt

Packagings == {"MacOsApp", "WindowsPortable", "LinuxAppImage", "LinuxDeb", "Unknown"}
SumsName == [words |-> {}, ext |-> "none"]    \* SHA256SUMS

\* exe: [bundle, exe, usr], whether it runs from an .app bundle, ends in .exe and
\* starts with /usr/; appimage: $APPIMAGE is set and not empty.
detect_packaging(exe, appimage) ==
  IF appimage THEN "LinuxAppImage"
  ELSE IF exe.bundle THEN "MacOsApp"
  ELSE IF exe.exe THEN "WindowsPortable"
  ELSE IF exe.usr THEN "LinuxDeb" ELSE "Unknown"

strategy_of(pkg) ==
  CASE pkg \in {"LinuxAppImage", "WindowsPortable"} -> "SelfReplace"
    [] pkg = "MacOsApp" -> "ManualInstall"
    [] OTHER -> "ExternalInstall"

Fits(pkg, name) ==
  CASE pkg = "MacOsApp" -> "macos" \in name.words /\ name.ext = "zip"
    [] pkg = "WindowsPortable" -> "windows" \in name.words /\ name.ext = "zip"
    [] pkg = "LinuxAppImage" -> name.ext = "appimage"
    [] pkg = "LinuxDeb" -> name.ext = "deb"
    [] OTHER -> FALSE

\* The position of the first asset that fits, 0 for none.
select_asset(pkg, assets) == SelectInSeq(assets, LAMBDA a : Fits(pkg, a.name))

\* A line is [hash, name]; a blank one, or one without a name, adds nothing, and
\* the last line for a name wins.
parse_sha256sums(lines) ==
  LET named == SelectSeq(lines, LAMBDA l : "name" \in DOMAIN l)
      at(n) == SelectLastInSeq(named, LAMBDA l : l.name = n)
  IN  [n \in {named[i].name : i \in DOMAIN named} |-> named[at(n)].hash]

\* The bytes saved in the end, or why none are.  An asset is [name, bytes], the one
\* named SHA256SUMS holds lines instead; hash is SHA-256.
download_and_verify(pkg, assets, hash) ==
  LET k == select_asset(pkg, assets)
      s == SelectInSeq(assets, LAMBDA a : a.name = SumsName)
      sums == parse_sha256sums(assets[s].lines)
  IN  IF k = 0 THEN "no matching asset"
      ELSE IF s = 0 THEN "no SHA256SUMS"
      ELSE IF assets[k].name \notin DOMAIN sums THEN "not listed"
      ELSE IF sums[assets[k].name] # hash[assets[k].bytes] THEN "mismatch" ELSE assets[k].bytes

\* extract_exe_from_zip: the last part of the first entry named .exe, written into
\* the folder the archive was saved in; an entry is [path, exe, readable], and one
\* that cannot be read ends the search.
extract_exe_from_zip(entries) ==
  LET k == SelectInSeq(entries, LAMBDA e : e.exe \/ ~e.readable)
  IN  IF k = 0 THEN "no .exe entry"
      ELSE IF ~entries[k].readable THEN "unreadable entry"
      ELSE Last(entries[k].path)
=============================================================================
