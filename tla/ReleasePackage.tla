--------------------------- MODULE ReleasePackage ---------------------------
(***************************************************************************)
(* scripts/release_package.sh, run again and again over one artifact       *)
(* directory while its files come, change and go: copy them to a temporary *)
(* directory, list them in manifest.json, update the archive with zip, and *)
(* sign it on request.  The outputs go to release/, which lies in the      *)
(* artifact directory (the default of --out-dir) and is packed along.      *)
(*                                                                         *)
(* A file's content is a number of its own, that of an output the run that *)
(* wrote it.  The archive's name is the project's version, so every run    *)
(* updates the same archive.                                               *)
(***************************************************************************)
EXTENDS Integers, TLC, Functions

CONSTANTS Names,      \* files of the artifact directory
          Changes,    \* bound: changes of these files
          Packagings, \* bound: runs of the script
          Slack       \* bound: steps that fail

ASSUME PackageAssumption == {Changes, Packagings, Slack} \subseteq Nat

VARIABLES
  art,        \* the files outside release/: content by name
  changes,    \* history: how often they changed
  stage, runs,
  signing,    \* --sign
  gpg,        \* whether gpg is installed
  absolute,   \* whether --out-dir is an absolute path
  tmp,        \* the temporary directory, by path
  manifest,   \* what manifest.json lists, and the run that wrote it
  archive,    \* the entries of the archive, and the run that updated it
  sig,        \* the run whose archive is signed
  outcome,    \* exit code of the last run
  faults      \* history

args == <<runs, signing, gpg, absolute>>
outside == <<art, changes>>
packager == <<outside, stage, args, tmp, manifest, archive, sig, outcome, faults>>

NoFiles == [p \in {} |-> 0]
NoOutput == [files |-> NoFiles, run |-> 0]

Fail == faults < Slack /\ faults' = faults + 1
End(c) == stage' = "idle" /\ outcome' = c
-----------------------------------------------------------------------------
PackageInit == /\ art = NoFiles
               /\ changes = 0
               /\ stage = "idle"
               /\ runs = 0 /\ signing = FALSE /\ gpg = FALSE /\ absolute = FALSE
               /\ tmp = NoFiles
               /\ manifest = NoOutput
               /\ archive = NoOutput
               /\ sig = 0
               /\ outcome = 0
               /\ faults = 0

(* Other programs write and remove files meanwhile. *)
change_file == /\ changes < Changes
               /\ changes' = changes + 1
               /\ \E n \in Names :
                    \/ art' = (n :> changes') @@ art
                    \/ n \in DOMAIN art /\ art' = Restrict(art, DOMAIN art \ {n})
               /\ UNCHANGED <<stage, args, tmp, manifest, archive, sig, outcome, faults>>

start_script == /\ stage = "idle"
                /\ runs < Packagings
                /\ runs' = runs + 1
                /\ signing' \in BOOLEAN
                /\ gpg' \in BOOLEAN
                /\ absolute' \in BOOLEAN
                /\ tmp' = NoFiles
                /\ stage' = "copy"
                /\ UNCHANGED <<outside, manifest, archive, sig, outcome, faults>>

Output(path, o) == IF o.run = 0 THEN NoFiles ELSE path :> o.run

(* tar of the artifact directory: all its files, and what release/ holds   *)
(* from the runs before (the rights manifest and signature are left out).  *)
copy_artifacts ==
  /\ stage = "copy"
  /\ \/ /\ tmp' = art @@ Output("release/archive.zip", archive)
                      @@ Output("release/manifest.json", manifest)
        /\ stage' = "manifest"
        /\ UNCHANGED <<outcome, faults>>
     \/ Fail /\ End(1) /\ UNCHANGED tmp
  /\ UNCHANGED <<outside, args, manifest, archive, sig>>

(* manifest.json, of the files in the temporary directory, and the rights  *)
(* manifest, which is listed nowhere.                                      *)
write_manifest ==
  /\ stage = "manifest"
  /\ \/ /\ manifest' = [files |-> tmp, run |-> runs]
        /\ stage' = "zip"
        /\ UNCHANGED <<outcome, faults>>
     \/ /\ Fail /\ End(1)
        /\ \E listed \in {NoFiles, tmp} :
             manifest' = [files |-> listed, run |-> runs]
  /\ UNCHANGED <<outside, args, tmp, archive, sig>>

(* Entries of one archive put in place of those of another. *)
Over(new, old) == [p \in DOMAIN new \union DOMAIN old |->
                     IF p \in DOMAIN new THEN new[p] ELSE old[p]]

(* Variant: entries already there are kept. *)
zip_keep == /\ stage = "zip"
            /\ archive' = [files |-> Over(archive.files, tmp), run |-> runs]
            /\ stage' = "sign"
            /\ UNCHANGED <<outside, args, tmp, manifest, sig, outcome, faults>>

(* zip -r replaces and adds entries and removes none; it renames a         *)
(* finished copy over the old archive.  The path it is given begins with   *)
(* the repository's root, even when --out-dir is absolute.                 *)
zip == /\ stage = "zip"
       /\ \/ /\ ~absolute
             /\ archive' = [files |-> Over(tmp, archive.files), run |-> runs]
             /\ stage' = "sign"
             /\ UNCHANGED <<outcome, faults>>
          \/ absolute /\ End(1) /\ UNCHANGED <<archive, faults>>
          \/ Fail /\ End(1) /\ UNCHANGED archive
       /\ UNCHANGED <<outside, args, tmp, manifest, sig>>

(* gpg --detach-sign, with --sign only; without gpg the script says that   *)
(* it skips the signature, and exits with 0.  A gpg that fails leaves the  *)
(* signature there was or removes it.                                      *)
sign == /\ stage = "sign"
        /\ \/ signing /\ gpg /\ sig' = archive.run /\ End(0) /\ UNCHANGED faults
           \/ ~(signing /\ gpg) /\ End(0) /\ UNCHANGED <<sig, faults>>
           \/ signing /\ gpg /\ Fail /\ End(1) /\ sig' \in {sig, 0}
        /\ UNCHANGED <<outside, args, tmp, manifest, archive>>

PackageNext == \/ change_file \/ start_script \/ copy_artifacts \/ write_manifest
               \/ zip \/ sign
               \/ stage = "idle" /\ runs = Packagings /\ UNCHANGED packager

PackageSpec == PackageInit /\ [][PackageNext]_packager
-----------------------------------------------------------------------------
(***************************************************************************)
(* After a successful packaging the outputs fit each other, whatever was   *)
(* written to the artifacts meanwhile and whatever release/ held before:   *)
(* every file of the manifest is in the archive as listed, and both are of *)
(* the same run.  A signature is of this archive if it was asked for and   *)
(* gpg is installed, and in no other case: what then lies beside the       *)
(* archive after a success is none or one of an earlier archive.           *)
(***************************************************************************)
OutputsFit ==
  stage = "idle" /\ runs > 0 /\ outcome = 0 =>
    /\ \A p \in DOMAIN manifest.files :
         p \in DOMAIN archive.files /\ archive.files[p] = manifest.files[p]
    /\ manifest.run = runs /\ archive.run = runs
    /\ sig = runs <=> signing /\ gpg
=============================================================================
