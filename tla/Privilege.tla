----------------------------- MODULE Privilege ------------------------------
(***************************************************************************)
(* The capability sets of the processes of vmcell: the transition of the   *)
(* blessed test runner (vmcell-privilege/src/lib.rs and                    *)
(* vmcell-test-runner/src/main.rs), the drop of the daemon's HTTP parent,  *)
(* and the jail of a VMM between fork and exec (vmcell/src/vmm/jail.rs).   *)
(*                                                                         *)
(* Kernel* are the kernel's rules for the five sets (capabilities(7));     *)
(* every step of the code calls them and ends the process when one         *)
(* refuses.  A capability that only uid or gid changes need is SetId.      *)
(***************************************************************************)
EXTENDS Naturals, Sequences, FiniteSets

CONSTANTS
  Need,      \* PRIVILEGED_CAPS
  SetPcap,   \* CAP_SETPCAP
  SetId,     \* CAP_SETUID and CAP_SETGID
  Others     \* every other capability the kernel supports

Supported == Need \cup {SetPcap, SetId} \cup Others
Blessed == Need \cup {SetPcap}

ASSUME PrivilegeConstants ==
  /\ Need # {}
  /\ SetPcap \notin Need \cup Others \cup {SetId}
  /\ SetId \notin Need \cup Others
  /\ Need \cap Others = {}

VARIABLES
  prStage,   \* which program runs, and with "ended" that it gave up
  prTodo,    \* its steps still to run
  form,    \* how it was started: file capabilities, setuid root, or by root
  euidRoot,
  kp, ke, ki, ka, kb,  \* permitted, effective, inheritable, ambient, bounding
  nnp,     \* no_new_privs
  jail,    \* the JailConfig of the VMM, as far as it is about capabilities
  startCaps   \* the permitted set at the start

prVars == <<prStage, prTodo, form, euidRoot, kp, ke, ki, ka, kb, nnp, jail, startCaps>>
capSets == <<kp, ke, ki, ka, kb>>

JailConfig == [clear_ambient_caps : BOOLEAN, no_new_privs : BOOLEAN, seccomp_deny_list : BOOLEAN]
PrivStep == {"bless", "dropUid", "addInheritable", "shrinkBounding", "raiseAmbient", "trimCaps",
         "exec", "clearAmbient", "shrinkAll", "noNewPrivs", "trimAll", "serve", "jail"}
Programs == {"runner", "test", "parent", "http", "broker", "child", "vmm"}

\* A program that one of them executed in turn.
Then(program) ==
  [test |-> "after test", http |-> "after http", vmm |-> "after vmm"][program]

PrivilegeTypeOK ==
  /\ prStage \in Programs \cup {Then(p) : p \in {"test", "http", "vmm"}} \cup {"refused", "ended"}
  /\ prTodo \in Seq(PrivStep)
  /\ form \in {"file", "setuid", "root"}
  /\ euidRoot \in BOOLEAN
  /\ ke \subseteq kp /\ kp \subseteq Supported
  /\ ki \subseteq Supported
  /\ ka \subseteq kp \cap ki
  /\ kb \subseteq Supported
  /\ nnp \in BOOLEAN
  /\ jail \in JailConfig
  /\ startCaps \subseteq Supported

\* PrivilegePlan::steps, between the runner's check and its exec.
Steps(drops) ==
  <<"bless">> \o (IF drops THEN <<"dropUid">> ELSE << >>)
    \o <<"addInheritable", "shrinkBounding", "raiseAmbient", "trimCaps", "exec">>

\* Mutant: a parent that holds nothing needs no further promise.
ParentStepsNoNnp == <<"bless", "clearAmbient", "shrinkAll", "trimAll", "serve">>

\* apply_broker_parent_drop; run checks the blessing before it forks.
ParentSteps == <<"bless", "clearAmbient", "shrinkAll", "noNewPrivs", "trimAll", "serve">>

\* The blessed file of `just bless` or an older blessing, a setuid-root file, a
\* root that may have been narrowed.
PrivilegeInit ==
  /\ form \in {"file", "setuid", "root"}
  /\ kb \in SUBSET Supported
  /\ \/ form = "file" /\ kp \in {Need \cap kb, Blessed \cap kb}
     \/ form # "file" /\ kp = kb
  /\ ke = kp /\ ki = {} /\ ka = {}
  /\ euidRoot = (form # "file")
  /\ nnp = FALSE
  /\ jail \in JailConfig
  /\ startCaps = kp
  /\ \/ prStage = "runner" /\ prTodo = Steps(form = "setuid")
     \/ prStage = "parent" /\ form # "setuid" /\ prTodo = ParentSteps
     \/ prStage = "broker" /\ form # "setuid" /\ prTodo = <<"bless">>

-----------------------------------------------------------------------------
(* The kernel *)

\* capset: what it refuses and what it does.
KernelAllows(p, i) ==
  /\ p \subseteq kp
  /\ i \subseteq ki \cup kb
  /\ SetPcap \in ke \/ i \subseteq ki \cup kp

KernelCapset(p, e, i) ==
  /\ kp' = p /\ ke' = e /\ ki' = i /\ ka' = ka \cap p \cap i
  /\ UNCHANGED kb

\* execve of a file with the given permitted capabilities, setuid root or not.
KernelExec(file, toRoot) ==
  LET root == euidRoot \/ (toRoot /\ ~nnp)
      gains == IF root THEN ki \cup kb ELSE file \cap kb
      amb == IF file # {} \/ (toRoot /\ ~nnp) THEN {} ELSE ka
      p == gains \cup amb
  IN  /\ kp' = (IF nnp THEN p \cap kp ELSE p)
      /\ ke' = kp'
      /\ ka' = amb
      /\ euidRoot' = root
      /\ UNCHANGED <<ki, kb>>

-----------------------------------------------------------------------------
(* Steps *)

At(s) == prTodo # << >> /\ Head(prTodo) = s
Done == prTodo' = Tail(prTodo) /\ UNCHANGED <<prStage, form, jail, startCaps>>

\* `?`: the process ends without another step.
GiveUpOn(as) ==
  /\ prStage' = as
  /\ prTodo' = << >>
  /\ UNCHANGED <<form, euidRoot, capSets, nnp, jail, startCaps>>

\* ensure_blessed_or_explain.
CheckBlessed ==
  /\ At("bless")
  /\ IF Need \subseteq ke
     THEN Done /\ UNCHANGED <<euidRoot, capSets, nnp>>
     ELSE GiveUpOn("refused")

KeptPermitted == kp

\* keepcaps, setresgid, setgroups, setresuid back to the invoking user.
DropUid ==
  /\ At("dropUid")
  /\ IF SetId \in ke
     THEN /\ Done
          /\ euidRoot' = FALSE
          /\ kp' = KeptPermitted /\ ke' = {} /\ ka' = {}
          /\ UNCHANGED <<ki, kb, nnp>>
     ELSE GiveUpOn("ended")

AddInheritable ==
  /\ At("addInheritable")
  /\ IF KernelAllows(kp, ki \cup Need)
     THEN KernelCapset(kp, ke, ki \cup Need) /\ Done /\ UNCHANGED <<euidRoot, nnp>>
     ELSE GiveUpOn("ended")

\* CAP_SETPCAP is raised from permitted if it can be.
RaisedSetPcap == ke \cup ({SetPcap} \cap kp)

\* shrink_bounding_set_live: best effort.
Shrink(drop) ==
  /\ ke' = RaisedSetPcap
  /\ kb' = IF SetPcap \in RaisedSetPcap THEN kb \ drop ELSE kb
  /\ Done
  /\ UNCHANGED <<euidRoot, kp, ki, ka, nnp>>

ShrinkBounding == At("shrinkBounding") /\ Shrink(Supported \ Need)

\* The caps are raised one by one; the first refusal ends the loop.
RaiseAmbient ==
  /\ At("raiseAmbient")
  /\ IF Need \subseteq kp \cap ki
     THEN ka' = ka \cup Need /\ Done /\ UNCHANGED <<euidRoot, kp, ke, ki, kb, nnp>>
     ELSE GiveUpOn("ended")

TrimCaps ==
  /\ At("trimCaps")
  /\ IF KernelAllows(Need, ki)
     THEN KernelCapset(Need, Need, ki) /\ Done /\ UNCHANGED <<euidRoot, nnp>>
     ELSE GiveUpOn("ended")

\* The runner becomes the test.
ExecTest ==
  /\ prStage = "runner" /\ At("exec")
  /\ KernelExec({}, FALSE)
  /\ prStage' = "test" /\ prTodo' = << >>
  /\ UNCHANGED <<form, nnp, jail, startCaps>>

ClearAmbient == At("clearAmbient") /\ ka' = {} /\ Done /\ UNCHANGED <<euidRoot, kp, ke, ki, kb, nnp>>

ShrinkAll == At("shrinkAll") /\ Shrink(Supported)

NoNewPrivs == At("noNewPrivs") /\ nnp' = TRUE /\ Done /\ UNCHANGED <<euidRoot, capSets>>

TrimAll == At("trimAll") /\ KernelCapset({}, {}, {}) /\ Done /\ UNCHANGED <<euidRoot, nnp>>

ServeHttp ==
  /\ At("serve")
  /\ prStage' = "http" /\ prTodo' = << >>
  /\ UNCHANGED <<form, euidRoot, capSets, nnp, jail, startCaps>>

\* The test or the broker forks a child for a VMM.
SpawnVmm ==
  /\ prStage \in {"test", "broker"} /\ prTodo = << >>
  /\ prStage' = "child" /\ prTodo' = <<"jail">>
  /\ UNCHANGED <<form, euidRoot, capSets, nnp, jail, startCaps>>

AmbientCleared == IF jail.clear_ambient_caps THEN {} ELSE ka

\* apply_jail: ambient, then no_new_privs, which the filter sets too; exec.
JailAndExec ==
  /\ At("jail")
  /\ ka' = AmbientCleared
  /\ nnp' = (nnp \/ jail.no_new_privs \/ jail.seccomp_deny_list)
  /\ prStage' = "vmm" /\ prTodo' = <<"exec">>
  /\ UNCHANGED <<form, euidRoot, kp, ke, ki, kb, jail, startCaps>>

ExecVmm ==
  /\ prStage = "vmm" /\ At("exec")
  /\ KernelExec({}, FALSE)
  /\ prTodo' = << >>
  /\ UNCHANGED <<prStage, form, nnp, jail, startCaps>>

\* What runs now executes a file with capabilities, or a setuid-root one.
ExecOther(program, file, toRoot) ==
  /\ prStage \in {program, Then(program)} /\ prTodo = << >>
  /\ prStage' = Then(program)
  /\ KernelExec(file, toRoot)
  /\ UNCHANGED <<prTodo, form, nnp, jail, startCaps>>

PrivilegeNext ==
  \/ CheckBlessed \/ DropUid \/ AddInheritable \/ ShrinkBounding \/ RaiseAmbient \/ TrimCaps
  \/ ExecTest
  \/ ClearAmbient \/ ShrinkAll \/ NoNewPrivs \/ TrimAll \/ ServeHttp
  \/ SpawnVmm \/ JailAndExec \/ ExecVmm
  \/ \E program \in {"test", "http", "vmm"}, file \in SUBSET Supported, toRoot \in BOOLEAN :
       ExecOther(program, file, toRoot)

PrivilegeSpec == PrivilegeInit /\ [][PrivilegeNext]_prVars

-----------------------------------------------------------------------------
(* Properties *)

\* The test starts as the invoking user with the capabilities it needs, raised
\* and ambient, and with no other one; only a root that could not shrink its
\* bounding set gets more, by root's own rule.
TestGetsWhatItNeeds ==
  prStage = "test" =>
    /\ Need \subseteq ke \cap ka
    /\ euidRoot = (form = "root")
    /\ kp = Need \/ (form = "root" /\ SetPcap \notin startCaps)

\* With CAP_SETPCAP at the start, nothing that the test ever executes comes
\* to hold a capability outside the ones it needs.
NothingBeyondNeed ==
  SetPcap \in startCaps /\ prStage \in {"test", Then("test")} => kp \subseteq Need

\* The HTTP parent holds no capability when it serves and never comes to hold
\* one, whatever it executes, even where its bounding set could not be shrunk.
HttpHoldsNothing ==
  prStage \in {"http", Then("http")} => kp \cup ki \cup ka = {}

\* A hardened VMM that is not root's holds no capability and cannot gain one,
\* whichever process spawned it.
HardenedVmmHoldsNothing ==
  prStage \in {"vmm", Then("vmm")} /\ prTodo = << >> /\ form # "root" =>
    (jail.clear_ambient_caps /\ (jail.no_new_privs \/ jail.seccomp_deny_list) => kp = {})

\* A runner that was found blessed is refused nothing on the way to the test,
\* in any form, unless a narrowed setuid root cannot change its groups.
BlessedRunnerArrives ==
  prStage = "ended" => form = "setuid" /\ SetId \notin startCaps

\* Who holds what after every exec: the test what it needs and no more, the HTTP
\* parent and a hardened VMM nothing.
PrivilegeSafe ==
  /\ PrivilegeTypeOK
  /\ TestGetsWhatItNeeds
  /\ NothingBeyondNeed
  /\ HttpHoldsNothing
  /\ HardenedVmmHoldsNothing
  /\ BlessedRunnerArrives
=============================================================================
