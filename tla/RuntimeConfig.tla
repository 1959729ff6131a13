---------------------------- MODULE RuntimeConfig ----------------------------
(***************************************************************************)
(* The configuration while the program runs: the file config.yaml, the     *)
(* Settings object that every part reads, the keys in .env, and the LLM    *)
(* providers built from them (server/routes_config.py,                     *)
(* routes_credentials.py, config_io.py, config.py, bootstrap.py).  A route *)
(* handler runs without suspension, so each is one action.  What           *)
(* interleaves are the operator's forms, which are filled from a GET and   *)
(* saved as a whole later, the agent, which engages the risk lock by       *)
(* itself, writes that fail, and restarts.                                 *)
(*                                                                         *)
(* A configuration is a record: the lock (risk.kill_switch), a limit (any  *)
(* other field that takes effect at once), the mode (a field that does     *)
(* not), the flat llm.model, the credentials, and the agents' bindings.    *)
(* Values are small numbers; a credential is [name, ver].                  *)
(***************************************************************************)
EXTENDS Naturals, FiniteSets

CONSTANTS
  Names,     \* names of credentials, "default" among them
  Forms,     \* forms open in the operator's browser
  MaxEdits,  \* bound: changes asked for
  MaxFaults  \* bound: file writes that fail

VARIABLES
  file,     \* config.yaml
  run,      \* the shared Settings
  env,      \* for each credential, the number of its key, 0 without one
  provider, \* what each agent's provider was built from, or Unbuilt
  latched,  \* DecisionLoop._risk_locked
  form,     \* the snapshot each form was filled with: a singleton, or {}
  asked,    \* history: what the credential routes have last set, 0 for none
  restart,  \* history: the fields reported as needing a restart
  unbuilt,  \* history: a key could not be written, and nothing was rebuilt
  unsaved,  \* history: the lock could not be written to the file
  edits,
  faults

vars == <<file, run, env, provider, latched, form, asked, restart, unbuilt, unsaved, edits,
          faults>>

Agents == {"trader", "researcher"}
Unbuilt == [name |-> "none", ver |-> 0, key |-> 0]

(* An empty list stands for one credential made of the flat fields.        *)
resolve_credentials(s) ==
  IF s.credentials = {} THEN {[name |-> "default", ver |-> s.model]} ELSE s.credentials
NamesOf(creds) == {c.name : c \in creds}

(* Settings' validator: the researcher's credential may be missing.        *)
Valid(s) == s.binding["trader"] \in NamesOf(resolve_credentials(s))

TypeOK ==
  /\ \A s \in {file, run} :
       /\ s.lock \in BOOLEAN /\ s.limit \in Nat /\ s.mode \in Nat /\ s.model \in Nat
       /\ NamesOf(s.credentials) \subseteq Names /\ s.binding \in [Agents -> Names]
  /\ env \in [Names -> Nat] /\ latched \in BOOLEAN /\ asked \in [Names -> Nat]
  /\ restart \subseteq {"mode"} /\ edits \in 0..MaxEdits /\ faults \in 0..MaxFaults

(* create_provider, for each agent: without its credential or its key the  *)
(* old provider stays.                                                     *)
BuiltFrom(s, e, a) ==
  LET found == {c \in resolve_credentials(s) : c.name = s.binding[a] /\ e[c.name] # 0}
  IN  {[name |-> c.name, ver |-> c.ver, key |-> e[c.name]] : c \in found}
Rebuilt(s, e, old) ==
  [a \in Agents |-> IF BuiltFrom(s, e, a) = {} THEN old[a]
                    ELSE CHOOSE p \in BuiltFrom(s, e, a) : TRUE]
Reconfigure(s, e) == provider' = Rebuilt(s, e, provider) /\ unbuilt' = FALSE

NoProvider == [a \in Agents |-> Unbuilt]
Init ==
  /\ file = [lock |-> FALSE, limit |-> 1, mode |-> 1, model |-> 1, credentials |-> {},
             binding |-> [a \in Agents |-> "default"]]
  /\ run = file /\ env \in [Names -> {0, 1}]
  /\ provider = Rebuilt(run, env, NoProvider)
  /\ latched = FALSE /\ form = [f \in Forms |-> {}] /\ asked = [n \in Names |-> 0]
  /\ restart = {} /\ unbuilt = FALSE /\ unsaved = FALSE /\ edits = 0 /\ faults = 0

(* write_settings refuses what is not valid; set_env_keys saves a key.     *)
WriteSettings(new) == Valid(new) /\ file' = new
SetKey(n) == env[n] < 2 /\ env' = [env EXCEPT ![n] = @ + 1]

CanEdit == edits < MaxEdits /\ edits' = edits + 1
NoFault == UNCHANGED faults
Fault == faults < MaxFaults /\ faults' = faults + 1

-----------------------------------------------------------------------------
(* GET /api/config returns the file.                                       *)
OpenForm(f) ==
  /\ form' = [form EXCEPT ![f] = {file}] /\ form[f] # {file}
  /\ UNCHANGED <<file, run, env, provider, latched, asked, restart, unbuilt, unsaved, edits, faults>>

(* PUT /api/config: the body's sections replace those of the file, but for *)
(* the credentials, which forms may not touch.                             *)
Merge(body) == [body EXCEPT !.credentials = file.credentials]

Fields    == {"lock", "limit", "mode", "model", "binding"}
RuntimeKeys == Fields \ {"mode"}
HotKeysShort == {"model"} \* mutant: the bindings are forgotten
HotKeys   == {"model", "binding"}

Changed(new) == {k \in Fields : new[k] # file[k]}
WriteBack(new) == [k \in DOMAIN run |-> IF k \in Changed(new) \cap RuntimeKeys THEN new[k] ELSE run[k]]

(* What the operator has changed in the form before saving it.             *)
Edited(s) ==
  {[s EXCEPT !.limit = 3 - @], [s EXCEPT !.mode = 3 - @], [s EXCEPT !.model = 3 - @]}
    \cup {[s EXCEPT !.binding[a] = n] : a \in Agents, n \in NamesOf(resolve_credentials(s))}

SaveForm(f) ==
  /\ CanEdit /\ NoFault
  /\ \E s \in form[f] : \E body \in Edited(s) :
       LET new == Merge(body)
       IN  /\ WriteSettings(new) /\ run' = WriteBack(new)
           /\ restart' = restart \cup (Changed(new) \ RuntimeKeys)
           /\ unsaved' = (unsaved /\ "lock" \notin Changed(new))
           /\ IF Changed(new) \cap RuntimeKeys \cap HotKeys # {} THEN Reconfigure(run', env)
              ELSE UNCHANGED <<provider, unbuilt>>
  /\ form' = [form EXCEPT ![f] = {file'}] \* the page loads the file again
  /\ UNCHANGED <<env, latched, asked>>

(* POST /api/kill_switch.                                                  *)
KillSwitch(enabled) ==
  /\ CanEdit /\ WriteSettings([file EXCEPT !.lock = enabled]) /\ run' = [run EXCEPT !.lock = enabled]
  /\ unsaved' = FALSE
  /\ UNCHANGED <<env, provider, latched, form, asked, restart, unbuilt, faults>>

(* _engage_lock: the lock in memory holds even if it cannot be saved.      *)
EngageLock ==
  /\ ~latched /\ latched' = TRUE /\ run' = [run EXCEPT !.lock = TRUE]
  /\ \/ NoFault /\ file' = [file EXCEPT !.lock = TRUE] /\ unsaved' = FALSE
     \/ Fault /\ UNCHANGED file /\ unsaved' = ~file.lock
  /\ UNCHANGED <<env, provider, form, asked, restart, unbuilt, edits>>

-----------------------------------------------------------------------------
(* The credential routes start from the credentials in use, replace the    *)
(* list in the file, write it back, save a key if one was given, and       *)
(* rebuild.  If the key cannot be written, nothing is rebuilt.             *)
SaveCredentials(creds) ==
  /\ WriteSettings([file EXCEPT !.credentials = creds])
  /\ run'  = [run EXCEPT !.credentials = creds]

SaveKeyAndReconfigure(n) ==
  \/ NoFault /\ UNCHANGED env /\ Reconfigure(run', env)
  \/ NoFault /\ SetKey(n) /\ Reconfigure(run', env')
  \/ Fault /\ UNCHANGED <<env, provider>> /\ unbuilt' = TRUE

rest == <<latched, form, restart, unsaved>>

PostCredential(n) ==
  /\ CanEdit /\ n \notin NamesOf(resolve_credentials(run))
  /\ SaveCredentials(resolve_credentials(run) \cup {[name |-> n, ver |-> 1]})
  /\ SaveKeyAndReconfigure(n) /\ asked' = [asked EXCEPT ![n] = 1]
  /\ UNCHANGED rest

PutCredential(n) ==
  /\ CanEdit
  /\ \E old \in resolve_credentials(run) :
       /\ old.name = n
       /\ SaveCredentials((resolve_credentials(run) \ {old}) \cup {[old EXCEPT !.ver = 3 - @]})
       /\ asked' = [asked EXCEPT ![n] = 3 - old.ver]
  /\ SaveKeyAndReconfigure(n)
  /\ UNCHANGED rest

UsedBy(n) == \E a \in Agents : run.binding[a] = n

DeleteCredential(n) ==
  /\ CanEdit /\ NoFault /\ n \in NamesOf(resolve_credentials(run)) /\ ~UsedBy(n)
  /\ SaveCredentials({c \in resolve_credentials(run) : c.name # n})
  /\ UNCHANGED env /\ Reconfigure(run', env) /\ asked' = [asked EXCEPT ![n] = 0]
  /\ UNCHANGED rest

(* POST /api/secrets: a key for a credential, and a rebuild.               *)
PostSecrets(n) ==
  /\ CanEdit /\ n \in NamesOf(resolve_credentials(run))
  /\ SetKey(n) /\ Reconfigure(run, env')
  /\ UNCHANGED <<file, run, asked, rest, faults>>

(* The program ends and starts from the file; forms stay open.             *)
Restart ==
  /\ run # file \/ latched \/ unbuilt
  /\ run' = file /\ latched' = FALSE /\ provider' = Rebuilt(file, env, NoProvider)
  /\ restart' = {} /\ unbuilt' = FALSE /\ unsaved' = FALSE
  /\ UNCHANGED <<file, env, form, asked, edits, faults>>

-----------------------------------------------------------------------------
Next ==
  \/ \E f \in Forms : OpenForm(f) \/ SaveForm(f)
  \/ \E b \in BOOLEAN : KillSwitch(b)
  \/ EngageLock \/ Restart
  \/ \E n \in Names : PostCredential(n) \/ PutCredential(n) \/ DeleteCredential(n) \/ PostSecrets(n)

Spec == Init /\ [][Next]_vars

-----------------------------------------------------------------------------
(* Properties.                                                             *)

(* What the credential routes have set is what the file and the running    *)
(* program have, whatever forms filled earlier are saved in between, and   *)
(* no binding of the trader is left without its credential.                *)
CredentialsKept ==
  /\ file.credentials = run.credentials
  /\ \A n \in Names \ {"default"} :
       {c.ver : c \in {d \in file.credentials : d.name = n}} = {asked[n]} \ {0}
  /\ run.binding["trader"] \in NamesOf(resolve_credentials(run))

(* What is in the file is in effect, or was reported as needing a restart; *)
(* the lock may be in effect without being in the file, never the other    *)
(* way round.  And each agent speaks through the provider that its         *)
(* binding, the credential and the key now call for, if there is one.      *)
SavedIsEffective ==
  /\ \A k \in Fields \ {"lock"} : file[k] # run[k] => k \in restart
  /\ file.lock # run.lock => unsaved /\ run.lock
  /\ ~unbuilt => \A a \in Agents :
       BuiltFrom(run, env, a) # {} => provider[a] \in BuiltFrom(run, env, a)

(* The comment in the front end's types: the lock is shown in the          *)
(* configuration read-only, and operated through /api/kill_switch.  So a   *)
(* lock the program is under is released by that route (or a restart).     *)
ReleasedByOperator == [][run.lock /\ ~run'.lock => KillSwitch(FALSE) \/ Restart]_vars

(* What has been configured stays, and is in effect.                       *)
ConfigHolds == CredentialsKept /\ SavedIsEffective
=============================================================================
