--------------------------- MODULE InstalledSkills ---------------------------
(***************************************************************************)
(* Installing skills (api/routes/skills.ts): the file of a skill and then  *)
(* the manifest installed-skills.json, each written to a .tmp that is      *)
(* renamed.  Requests overlap, and the daemon may be killed between any    *)
(* two awaits.  A file is known by the entry that it has the content of;   *)
(* one writeFile is one step.  Requests that are refused (unconfirmed, bad *)
(* name, unknown format, wrong checksum) change nothing and are left out.  *)
(***************************************************************************)
EXTENDS PactView

CONSTANTS
    SkillType,
    FileOf,      \* FileOf[e]: the name@version.ext of skill e
    Installers,  \* requests that may be under way at once
    MaxInstalls, \* bound: requests
    MaxKills     \* bound: kills of the daemon

ASSUME InstalledSkillsAssumption == MaxInstalls \in Nat /\ MaxKills \in Nat

VARIABLES
    skillFile, skillTmp,      \* the entry whose content is there, 0 for no file
    manifest, manifestTmp,    \* the entries it records, {} for no file
    install,                  \* install[w]: where request w is
    confirmed,                \* history: installs that were answered `ok`
    crossed,                  \* history: installs whose update of the manifest met another's
    installs, kills

skillVars == <<skillFile, skillTmp, manifest, manifestTmp, install,
               confirmed, crossed, installs, kills>>

Skills == {e \in Entries : TypeOf[e] = SkillType}

Files == {FileOf[e] : e \in Skills}

NoInstall == [at |-> "none", entry |-> 0, copy |-> {}]

InstallInit ==
    /\ skillFile = [f \in Files |-> 0] /\ skillTmp = [f \in Files |-> 0]
    /\ manifest = {} /\ manifestTmp = {}
    /\ install = [w \in Installers |-> NoInstall]
    /\ confirmed = {} /\ crossed = {}
    /\ installs = 0 /\ kills = 0

\* The route finds the skill in the view.
Install(w, e) ==
    /\ install[w] = NoInstall /\ installs < MaxInstalls
    /\ e \in OfType(SkillType)
    /\ install' = [install EXCEPT ![w] = [at |-> "write", entry |-> e, copy |-> {}]]
    /\ installs' = installs + 1
    /\ UNCHANGED <<skillFile, skillTmp, manifest, manifestTmp, confirmed, crossed, kills>>

Doing(w, at) == install[w].at = at

Advance(w, at) == install' = [install EXCEPT ![w].at = at]

Finish(w) == install' = [install EXCEPT ![w] = NoInstall]

\* Mutant: the manifest is written before the file is in its place.
WriteSkillLast(w) ==
    /\ Doing(w, "write")
    /\ skillTmp' = [skillTmp EXCEPT ![FileOf[install[w].entry]] = install[w].entry]
    /\ Advance(w, "read")
    /\ UNCHANGED <<skillFile, manifest, manifestTmp, confirmed, crossed, installs, kills>>

WriteSkill(w) ==
    /\ Doing(w, "write")
    /\ skillTmp' = [skillTmp EXCEPT ![FileOf[install[w].entry]] = install[w].entry]
    /\ Advance(w, "rename")
    /\ UNCHANGED <<skillFile, manifest, manifestTmp, confirmed, crossed, installs, kills>>

\* rename; without the .tmp, which another request took, the route fails.
RenameSkill(w) ==
    /\ Doing(w, "rename")
    /\ LET f == FileOf[install[w].entry]
       IN  IF skillTmp[f] = 0
           THEN Finish(w) /\ UNCHANGED <<skillFile, skillTmp>>
           ELSE /\ skillFile' = [skillFile EXCEPT ![f] = skillTmp[f]]
                /\ skillTmp' = [skillTmp EXCEPT ![f] = 0]
                /\ Advance(w, "read")
    /\ UNCHANGED <<manifest, manifestTmp, confirmed, crossed, installs, kills>>

Updating == {w \in Installers : install[w].at \in {"record", "commit"}}

ReadInstalled(w) ==
    /\ Doing(w, "read")
    /\ install' = [install EXCEPT ![w].at = "record", ![w].copy = manifest]
    /\ crossed' = IF Updating = {} THEN crossed
                  ELSE crossed \cup {install[v].entry : v \in Updating \cup {w}}
    /\ UNCHANGED <<skillFile, skillTmp, manifest, manifestTmp, confirmed, installs, kills>>

WriteInstalled(w) ==
    /\ Doing(w, "record")
    /\ manifestTmp' = install[w].copy \cup {install[w].entry}
    /\ Advance(w, "commit")
    /\ UNCHANGED <<skillFile, skillTmp, manifest, confirmed, crossed, installs, kills>>

RenameInstalled(w) ==
    /\ Doing(w, "commit")
    /\ \/ manifestTmp = {} /\ UNCHANGED <<manifest, manifestTmp, confirmed>>
       \/ /\ manifestTmp # {}
          /\ manifest' = manifestTmp /\ manifestTmp' = {}
          /\ confirmed' = confirmed \cup {install[w].entry}
    /\ Finish(w)
    /\ UNCHANGED <<skillFile, skillTmp, crossed, installs, kills>>

\* What was written stays, a .tmp too.
KillInstalls ==
    /\ kills < MaxKills /\ \E w \in Installers : install[w] # NoInstall
    /\ kills' = kills + 1
    /\ install' = [w \in Installers |-> NoInstall]
    /\ UNCHANGED <<skillFile, skillTmp, manifest, manifestTmp, confirmed, crossed, installs>>

InstallStep ==
    \/ \E w \in Installers :
        \/ \E e \in Skills : Install(w, e)
        \/ WriteSkill(w) \/ RenameSkill(w)
        \/ ReadInstalled(w) \/ WriteInstalled(w) \/ RenameInstalled(w)
    \/ KillInstalls

---------------------------------------------------------------------------
(* Properties.                                                             *)

InstallTypeOK ==
    /\ skillFile \in [Files -> Skills \cup {0}] /\ skillTmp \in [Files -> Skills \cup {0}]
    /\ manifest \subseteq Skills /\ manifestTmp \subseteq Skills
    /\ \A w \in Installers :
        /\ install[w].at \in {"none", "write", "rename", "read", "record", "commit"}
        /\ install[w].entry \in view \cup {0} /\ install[w].copy \subseteq Skills
    /\ confirmed \subseteq view /\ crossed \subseteq view
    /\ installs \in 0..MaxInstalls /\ kills \in 0..MaxKills

Namesakes(e) == {g \in Skills : FileOf[g] = FileOf[e]}

\* Whatever requests overlap and wherever the daemon is killed: a skill that the
\* manifest records is on disk whole, with its own content unless another skill
\* of the same name and version has been posted (skills.ts:274 gives both one
\* file); and a confirmed install stays recorded, unless another one updated the
\* manifest at the same time (skills.ts:289).
InstalledIsTrue ==
    /\ \A e \in manifest : skillFile[FileOf[e]] \in Namesakes(e) \cap view
    /\ confirmed \ crossed \subseteq manifest
==============================================================================
