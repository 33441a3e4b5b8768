-------------------------------- MODULE Host --------------------------------
(***************************************************************************)
(* A host and its OpenBao from the first init to the running provider:     *)
(* init runs into a directory, an administrator runs openbao-setup.sh, and *)
(* root runs the phases of node-setup.sh, which end with the start of the  *)
(* provider.  Composes Provider with what Installation generates.          *)
(*                                                                         *)
(* A plan gives each run of init its options, or none.  Without a plan the *)
(* host is one of Provider's settings and nothing is installed.            *)
(***************************************************************************)
EXTENDS Provider, Installation

CONSTANTS Runs,    \* the runs of init
          Plans,   \* functions from Runs to options, sets of at most one
          MaxAge   \* how old a passed check is known to be, in ticks

\* init writes to one of the directories.
ASSUME HostAssumption ==
  \A plan \in Plans : \A r \in Runs : \A opts \in plan[r] : opts.dir \in {"d1", "d2"}

VARIABLES command, \* the runs of init, and what each has rendered
          out,     \* the output directories: file name to [by, whole]
          setup,   \* the openbao-setup.sh that runs, and its commands left
          openbao, \* the commands that have succeeded
          node     \* what node-setup.sh has done

hostVars == <<command, out, setup, openbao, node>>

\* nodeSetupCheckMaxAge, one hour, in ticks.
nodeSetupCheckMaxAge == 1

-----------------------------------------------------------------------------
(* The initial states.                                                     *)

Idle(opts) == [pc |-> "off", opts |-> opts, cfg |-> {}, files |-> {}, left |-> << >>]

\* OpenBao with nothing of the provider's, and after some of the commands.
BaoAfter(commands, role, policy, jwt) ==
  [login |-> /\ {"auth-mount", "auth-config", "auth-role"} \subseteq commands
             /\ role.issuer = jwt.issuer /\ role.audience = jwt.audience
             /\ role.subject = jwt.subject,
   disableUpsert |-> "disable_upsert" \in commands,
   key |-> IF "key" \in commands THEN FirstKey
           ELSE [FirstKey EXCEPT !.latest = 0, !.createdAt = << >>],
   caps |-> IF "policy" \in commands THEN PolicyCapabilities(policy)
            ELSE PolicyCapabilities(<<>>)]

FreshSetting == [source |-> "file", start |-> "absent", deviation |-> <<"fresh">>]

\* A host with the package and the credentials at hand, and no configuration.
FreshWorld ==
  [World(FreshSetting) EXCEPT
     !.loaded = {},
     !.files = [field \in DOMAIN World(FreshSetting).files |->
                  IF field = "socketParent" THEN "directory" ELSE "missing"],
     !.bao = BaoAfter({}, setupJWTRole(ZeroConfig), <<>>, World(FreshSetting).cred.jwt)]

FreshInit ==
  /\ world = FreshWorld
  /\ registry = RegistryAt("absent")
  /\ up = TRUE
  /\ identity = [inode |-> 1, kind |-> "missing"]
  /\ safe = {} /\ used = {} /\ lock = {} /\ path = "absent" /\ bound = {}
  /\ proc = [p \in Processes |-> Off("none")]
  /\ \E plan \in Plans : command = [r \in Runs |-> Idle(plan[r])]

HostInit ==
  /\ \/ FreshInit
     \/ Init /\ command = [r \in Runs |-> Idle({})]
  /\ out = [d \in {"d1", "d2"} |-> << >>]
  /\ setup = [by |-> {}, left |-> << >>]
  /\ openbao = {}
  /\ node = [dirs |-> {}, installer |-> {}, left |-> << >>, config |-> {}, marker |-> {},
             checked |-> {}, active |-> {}]

-----------------------------------------------------------------------------
(* init.                                                                   *)

Opts(r) == CHOOSE opts \in command[r].opts : TRUE

Generated(r) == CHOOSE files \in command[r].files : TRUE

\* The values file: one of its own, or the config.yaml of another run.
ValuesOf(r) ==
  IF Opts(r).reuses = {} THEN Opts(r).values
  ELSE DecodeDurations(Generated(CHOOSE q \in Opts(r).reuses : TRUE).config)

\* runInit up to ensureEmptyDir.  A generated lineage is known by its run.
RunInit(r) ==
  /\ command[r].pc = "off" /\ command[r].opts # {}
  /\ \A q \in Opts(r).reuses : command[q].pc = "done"
  /\ LET cfgs == IF validateInitFlags(Opts(r)) THEN loadInitValues(ValuesOf(r), Opts(r), r)
                 ELSE {}
         files == UNION {renderInitFiles(cfg, Opts(r)) : cfg \in cfgs}
     IN command' = [command EXCEPT ![r] =
          IF files = {} \/ out[Opts(r).dir] # << >> THEN [@ EXCEPT !.pc = "failed"]
          ELSE [@ EXCEPT !.pc = "writing", !.cfg = cfgs, !.files = files,
                         !.left = initFiles(Opts(r))]]
  /\ UNCHANGED <<vars, out, setup, openbao, node>>

\* A directory with one more file.
WithFile(files, name, file) ==
  [x \in DOMAIN files \cup {name} |-> IF x = name THEN file ELSE files[x]]

\* Mutant: the file is truncated when it exists.
CreateFileOver(r) ==
  /\ command[r].pc = "writing"
  /\ LET name == Head(command[r].left)
     IN /\ out' = [out EXCEPT ![Opts(r).dir] = WithFile(@, name, [by |-> r, whole |-> FALSE])]
        /\ command' = [command EXCEPT ![r].pc = "created"]
  /\ UNCHANGED <<vars, setup, openbao, node>>

\* writeInitFiles, for one file: os.OpenFile with O_EXCL.
CreateFile(r) ==
  /\ command[r].pc = "writing"
  /\ LET name == Head(command[r].left)
     IN IF name \in DOMAIN out[Opts(r).dir]
        THEN command' = [command EXCEPT ![r].pc = "failed"] /\ UNCHANGED out
        ELSE /\ out' = [out EXCEPT ![Opts(r).dir] = WithFile(@, name, [by |-> r, whole |-> FALSE])]
             /\ command' = [command EXCEPT ![r].pc = "created"]
  /\ UNCHANGED <<vars, setup, openbao, node>>

\* Write and Close.
WriteFile(r) ==
  /\ command[r].pc = "created"
  /\ LET left == Tail(command[r].left)
     IN command' = [command EXCEPT ![r].left = left,
                                   ![r].pc = IF left = << >> THEN "done" ELSE "writing"]
  /\ out' = [out EXCEPT ![Opts(r).dir][Head(command[r].left)] = [by |-> r, whole |-> TRUE]]
  /\ UNCHANGED <<vars, setup, openbao, node>>

\* The disk is full, or the command is interrupted.
InterruptInit(r) ==
  /\ command[r].pc \in {"writing", "created"}
  /\ command' = [command EXCEPT ![r].pc = "failed"]
  /\ UNCHANGED <<vars, out, setup, openbao, node>>

\* The scripts are run once every run of init has succeeded: they look at
\* nothing that a failed one leaves in a directory.
Ready(r) ==
  /\ command[r].opts # {}
  /\ \A q \in Runs : command[q].opts # {} => command[q].pc = "done"

-----------------------------------------------------------------------------
(* openbao-setup.sh.                                                       *)

\* external: OpenBao refuses a second mount at a path, and a write below a
\* path where nothing is mounted.
Refused(name) ==
  \/ name \in {"mount", "auth-mount"} /\ name \in openbao
  \/ name \in {"disable_upsert", "key"} /\ "mount" \notin openbao
  \/ name \in {"auth-config", "auth-role"} /\ "auth-mount" \notin openbao

\* Before anything is done on the node, where nothing but check looks at
\* OpenBao, and check passes only when no command is missing.
RunSetup(r) ==
  /\ Ready(r) /\ setup.by = {} /\ node.dirs = {} /\ node.config = {}
  /\ \E phase \in SetupPhases : setup' = [by |-> {r}, left |-> SetupCommands(phase)]
  /\ UNCHANGED <<vars, command, out, openbao, node>>

\* The next command; the script ends at the first that fails (set -e), and an
\* interrupted one leaves what it has done.
SetupCommand(r) ==
  /\ r \in setup.by
  /\ \/ /\ ~Refused(Head(setup.left))
        /\ openbao' = openbao \cup {Head(setup.left)}
        /\ setup' = IF Len(setup.left) = 1 THEN [by |-> {}, left |-> << >>]
                    ELSE [setup EXCEPT !.left = Tail(@)]
        /\ world' = [world EXCEPT !.bao = BaoAfter(openbao', Generated(r).role,
                                                   Generated(r).policy, world.cred.jwt)]
     \/ /\ setup' = [by |-> {}, left |-> << >>]
        /\ UNCHANGED <<openbao, world>>
  /\ UNCHANGED <<registry, up, identity, safe, used, lock, path, bound, proc,
                 command, out, node>>

-----------------------------------------------------------------------------
(* node-setup.sh.                                                          *)

\* One phase at a time, before the provider runs.
Free(r) == Ready(r) /\ node.active = {} /\ node.installer = {} /\ setup.by = {}

\* phase_prepare: a static pod needs the GID of this host, 1; the missing
\* directories are made.
Prepare(r) ==
  /\ Free(r)
  /\ Opts(r).model = "static-pod" => Opts(r).socketGID = 1
  /\ node' = [node EXCEPT !.dirs = @ \cup Generated(r).layout.dirs]
  /\ UNCHANGED <<vars, command, out, setup, openbao>>

RunInstall(r) ==
  /\ Free(r)
  /\ node' = [node EXCEPT !.installer = {r}, !.left = Generated(r).layout.files]
  /\ UNCHANGED <<vars, command, out, setup, openbao>>

Kind(file) ==
  IF file.path = "auth.jwt.jwtFile" THEN identity.kind ELSE world.files[file.path]

\* The directory of the configuration comes with the package, or from prepare.
DirectoryReady(r, file) ==
  \/ file.path = "config" /\ Opts(r).model = "systemd"
  \/ file.path \in node.dirs

\* What the readers of a file make of its mode: the CA bundles may be read by
\* everyone, nothing else.
InstalledKind(file) ==
  IF file.mode = "640" \/ file.path \in {"openbao.caCertFile", "auth.jwt.oauth2.caCertFile"}
  THEN "regular" ELSE "open"

\* phase_install: install_new for the next file, which never replaces one.  A
\* failure ends the phase and leaves what is installed.
InstallNew(r) ==
  /\ r \in node.installer
  /\ LET file == Head(node.left)
     IN \/ /\ Kind(file) = "missing" /\ DirectoryReady(r, file)
           /\ IF file.path = "auth.jwt.jwtFile"
              THEN /\ identity' = [inode |-> identity.inode + 1, kind |-> InstalledKind(file)]
                   /\ safe' = IF SafeFile(identity'.kind) THEN safe \cup {identity'.inode}
                              ELSE safe
                   /\ UNCHANGED world
              ELSE /\ world' =
                        [world EXCEPT !.files[file.path] = InstalledKind(file),
                           !.loaded = IF file.path # "config" THEN @
                                      ELSE Load(DecodeDurations(Generated(r).config), <<>>)]
                   /\ UNCHANGED <<identity, safe>>
           /\ node' = [node EXCEPT !.left = Tail(@),
                                   !.installer = IF Len(node.left) = 1 THEN {} ELSE @,
                                   !.config = IF file.path = "config" THEN {r} ELSE @]
        \/ /\ node' = [node EXCEPT !.installer = {}, !.left = << >>]
           /\ UNCHANGED <<world, identity, safe>>
  /\ UNCHANGED <<registry, up, used, lock, path, bound, proc, command, out, setup, openbao>>

\* external: the configuration is replaced by hand with another generation's.
ReplaceConfig(r) ==
  /\ Free(r) /\ node.config # {}
  /\ node' = [node EXCEPT !.config = {r}]
  /\ world' = [world EXCEPT !.loaded = Load(DecodeDurations(Generated(r).config), <<>>)]
  /\ UNCHANGED <<registry, up, identity, safe, used, lock, path, bound, proc,
                 command, out, setup, openbao>>

\* check_identity: the installed configuration has the fingerprint the script
\* was generated for.
check_identity(r) ==
  \E cfg \in world.loaded : IdentityFingerprint(cfg) = Generated(r).fingerprint

\* phase_check.  node.checked is what doctor has accepted, marker what the
\* script notes.
Check(r) ==
  /\ Free(r)
  /\ check_identity(r)
  /\ runVerifyKey(world.loaded, Files, world.cred, registry, world.bao) = {}
  /\ runDoctor(world.loaded, Files, Target, lookupGroupID(Cfg), {}, world.cred, registry,
               world.bao) = {}
  /\ node' = [node EXCEPT !.marker = {[fingerprint |-> Generated(r).fingerprint, age |-> 0]},
                          !.checked = {[fingerprint |-> IdentityFingerprint(Cfg), age |-> 0]}]
  /\ UNCHANGED <<vars, command, out, setup, openbao>>

\* Mutant: the marker alone decides.
require_marker(r) ==
  \E m \in node.marker : /\ m.fingerprint = Generated(r).fingerprint
                         /\ m.age <= nodeSetupCheckMaxAge

require_recent_check(r) ==
  /\ \E m \in node.marker : /\ m.fingerprint = Generated(r).fingerprint
                            /\ m.age <= nodeSetupCheckMaxAge
  /\ check_identity(r)

\* phase_start: systemd starts the unit, or the kubelet the pod, which sees
\* only what is mounted.
StartPhase(r) ==
  /\ Free(r)
  /\ require_recent_check(r)
  /\ node' = [node EXCEPT !.active = {r}]
  /\ LET visible(field) == \A pod \in Generated(r).pod :
                             field \in pod.readOnly \cup pod.writable
     IN /\ world' = [world EXCEPT !.files =
                       [field \in DOMAIN @ |-> IF visible(field) THEN @[field] ELSE "missing"]]
        /\ identity' = IF visible("auth.jwt.jwtFile") THEN identity
                       ELSE [identity EXCEPT !.kind = "missing"]
  /\ UNCHANGED <<registry, up, safe, used, lock, path, bound, proc, command, out, setup,
                 openbao>>

Older(notes) == {[n EXCEPT !.age = @ + 1] : n \in notes}

HostTick ==
  /\ node.active = {} /\ \E m \in node.marker : m.age < MaxAge
  /\ node' = [node EXCEPT !.marker = Older(@), !.checked = Older(@)]
  /\ UNCHANGED <<vars, command, out, setup, openbao>>

\* The processes of a host that is set up run once the provider is activated;
\* before it has a configuration, serve fails at once.
Serve ==
  /\ (\A r \in Runs : command[r].opts = {}) \/ node.active # {} \/ world.loaded = {}
  /\ Next
  /\ UNCHANGED hostVars

HostNext ==
  \/ \E r \in Runs :
       \/ RunInit(r) \/ CreateFile(r) \/ WriteFile(r) \/ InterruptInit(r)
       \/ RunSetup(r) \/ SetupCommand(r) \/ Prepare(r) \/ RunInstall(r) \/ InstallNew(r)
       \/ ReplaceConfig(r) \/ Check(r) \/ StartPhase(r)
  \/ HostTick
  \/ Serve

HostSpec == HostInit /\ [][HostNext]_<<vars, hostVars>> /\ Fairness

-----------------------------------------------------------------------------
(* Properties.                                                             *)

\* Runs of init that share a directory never mix their files, whatever the
\* order in which they list and create them, and a run that has succeeded
\* finds all of its files there, whole (ensureEmptyDir, O_EXCL in
\* writeInitFiles).
OneInstallation ==
  /\ \A d \in DOMAIN out : \A f, g \in DOMAIN out[d] : out[d][f].by = out[d][g].by
  /\ \A r \in Runs : command[r].pc = "done" =>
       \A i \in DOMAIN initFiles(Opts(r)) :
         LET name == initFiles(Opts(r))[i]
         IN name \in DOMAIN out[Opts(r).dir] /\ out[Opts(r).dir][name] = [by |-> r, whole |-> TRUE]

\* The settings that the selected login source looks at.
Relevant(cfg) ==
  DOMAIN cfg \ (IF cfg["auth.method"] = "cert" THEN JWTFields \cup OAuth2Fields
                ELSE CertFields \cup SPIFFEFields \cup
                     (IF cfg["auth.jwt.source"] = "oauth2" THEN {} ELSE OAuth2Fields))

\* The config.yaml that init writes loads back to the settings of the values
\* file, durations included (RenderProviderConfig, formatDuration), and init
\* on another node's config.yaml keeps all of them but the socket group, so
\* that the nodes share one identity.
GeneratedKeepsSettings ==
  [][\A r \in Runs : command'[r].pc = "done" /\ command[r].pc # "done" =>
       \A cfg \in command[r].cfg :
         /\ \E loaded \in Load(DecodeDurations(Generated(r).config), <<>>) :
              \A field \in Relevant(cfg) : loaded[field] = cfg[field]
         /\ \A q \in Opts(r).reuses : \E other \in command[q].cfg :
              \A field \in Relevant(cfg) \ {"server.socketGroup"} : cfg[field] = other[field]
    ]_<<vars, hostVars>>

\* When every command of openbao-setup.sh and every installation of
\* node-setup.sh has succeeded, doctor accepts what init has generated: the
\* policy covers what the provider does and no more, the role takes the
\* credential the configuration describes, the modes and the mounts let the
\* process read its files, and both EncryptionConfigurations fit.
GeneratedIsAccepted ==
  \A r \in node.config :
    /\ openbao = {SetupCommands("all")[i] : i \in DOMAIN SetupCommands("all")}
    /\ \A i \in DOMAIN Generated(r).layout.files :
         node.active # {} \/ Kind(Generated(r).layout.files[i]) # "missing"
    => \A encryptionConfig \in {Generated(r).writers, Generated(r).readers} :
         runDoctor(world.loaded, Files, Target, lookupGroupID(Cfg), {encryptionConfig},
                   world.cred, registry, world.bao) = {}

\* The provider is activated only with a configuration whose identity doctor
\* has accepted within the last hour, although the configuration may be
\* replaced by hand and the scripts of two generations be run in any order
\* (writeStartPhase, require_recent_check).
StartsWhatWasChecked ==
  [][node'.active # node.active =>
       \E note \in node.checked : /\ note.fingerprint = IdentityFingerprint(Cfg)
                                  /\ note.age <= nodeSetupCheckMaxAge]_<<vars, hostVars>>

=============================================================================
