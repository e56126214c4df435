----------------------------- MODULE Assistants -----------------------------
(***************************************************************************)
(* Who may ask which language model: the deployment's switches and lists   *)
(* of approved models, the copy of them every request reads, a mailbox's   *)
(* choice, and one question put to a provider.                             *)
(*                                                                         *)
(* A save of a provider's screen writes setting after setting, each an SQL *)
(* statement followed by Load, which selects the table and publishes it in *)
(* two steps; one that fails ends the save with the rest unwritten.  A     *)
(* mailbox keeps the model it chose, so approval counts where it is read.  *)
(* How Claude is then asked is in ClaudeChat.                              *)
(*                                                                         *)
(* Timeouts, temperatures as numbers, styles and prompts decide nothing    *)
(* here.  Ollama's address is taken to be set: a blank one is the same as  *)
(* its switch off to every reader.                                         *)
(***************************************************************************)
EXTENDS Naturals, Sequences

CONSTANTS
    Model,       \* names of models
    NoModel,     \* none chosen
    Admins       \* windows of the superuser's screens

ASSUME NoModelAssumption == NoModel \notin Model

VARIABLES
    hasKey,      \* anthropic_api_key, read once at the start
    rows,        \* app_settings, by provider
    values,      \* SettingsStore.values, which every request reads
    saving,      \* each superuser's save
    chosen,      \* the model the mailbox has chosen of each provider
    doubt        \* history: the last Load failed, or another was under way

assistantVars == <<hasKey, rows, values, saving, chosen, doubt>>

Provider == {"ollama", "claude"}

Fields == [approved : SUBSET Model, enabled : BOOLEAN]
Settings == [Provider -> Fields]

\* What a save still has to set, in order.
Todo == {<<"approved", "enabled">>, <<"enabled">>, << >>}

Save == [todo : Todo,
         step : {"write", "select", "publish"},
         provider : Provider,
         read : Settings]

AssistantsTypeOK ==
    /\ hasKey \in BOOLEAN
    /\ rows \in Settings /\ values \in Settings
    /\ saving \in [Admins -> Save]
    /\ chosen \in [Provider -> Model \union {NoModel}]
    /\ doubt \in BOOLEAN

Shipped == [p \in Provider |->
    [approved |-> {}, enabled |-> p = "ollama"]]

NoSave == [todo |-> << >>, step |-> "write", provider |-> "ollama",
           read |-> Shipped]

Resting(s) == saving[s].todo = << >>

-----------------------------------------------------------------------------
(* The superuser saves. *)

\* handleAdminSettingsSave.  The list of models is only part of the form when
\* the provider could be asked for it.
BeginSave(s, p) ==
    /\ Resting(s)
    /\ \E todo \in Todo \ {<< >>} :
         saving' = [saving EXCEPT ![s] = [NoSave EXCEPT !.provider = p, !.todo = todo]]
    /\ UNCHANGED <<hasKey, rows, values, chosen, doubt>>

Values(key) == IF key = "approved" THEN SUBSET Model ELSE BOOLEAN
Unkeyed(p, key, to) == p = "claude" /\ key = "enabled" /\ to /\ ~ hasKey

\* The statement of Set, with what the form has; a refusal or a failure ends
\* the save.
Write(s) ==
    LET v == saving[s]
        key == Head(v.todo)
    IN /\ ~ Resting(s) /\ v.step = "write"
       /\ \/ /\ \E to \in Values(key) :
                  /\ ~ Unkeyed(v.provider, key, to)
                  /\ rows' = [rows EXCEPT ![v.provider][key] = to]
             /\ saving' = [saving EXCEPT ![s].step = "select"]
          \/ saving' = [saving EXCEPT ![s] = NoSave] /\ UNCHANGED rows
       /\ UNCHANGED <<hasKey, values, chosen, doubt>>

\* Load selects the table.  Where that fails the row stays written and the
\* copy is as it was.
SelectRows(s) ==
    /\ ~ Resting(s) /\ saving[s].step = "select"
    /\ \/ /\ saving' = [saving EXCEPT ![s].step = "publish", ![s].read = rows]
          /\ UNCHANGED doubt
       \/ saving' = [saving EXCEPT ![s] = NoSave] /\ doubt' = TRUE
    /\ UNCHANGED <<hasKey, rows, values, chosen>>

Published(v) == v.read

\* And publishes what it selected.
PublishRows(s) ==
    LET v == saving[s]
    IN /\ ~ Resting(s) /\ v.step = "publish"
       /\ values' = Published(v)
       /\ saving' = [saving EXCEPT ![s] =
                        IF Len(v.todo) = 1 THEN NoSave
                        ELSE [v EXCEPT !.todo = Tail(@), !.step = "write", !.read = Shipped]]
       /\ doubt' = \/ v.read # rows
                   \/ \E o \in Admins \ {s} :
                         ~ Resting(o) /\ saving[o].step = "publish"
       /\ UNCHANGED <<hasKey, rows, chosen>>

-----------------------------------------------------------------------------
(* What a request reads. *)

EverApproved(p, m) == m # NoModel                \* mutant: where chosen only
Approved(p, m) == m # NoModel /\ m \in values[p].approved

Configured(p) == p = "claude" => hasKey

Enabled(p) ==
    /\ values[p].enabled /\ Configured(p)
    /\ Approved(p, chosen[p])

\* assistantFor: the preference, which may be stored from a time it could be
\* used, then a fixed order.
AssistantFor(want) ==
    IF want \in Provider /\ Enabled(want) THEN {want}
    ELSE IF Enabled("ollama") THEN {"ollama"}
    ELSE IF Enabled("claude") THEN {"claude"} ELSE {}

\* assistantNamed: a scan pressed on one provider's screen asks that one.
AssistantNamed(p) == IF p \in Provider /\ Enabled(p) THEN {p} ELSE {}

\* The mailbox's own screen: what could not be used is not stored.
ChooseModel(p, m) ==
    /\ values[p].enabled /\ Configured(p)
    /\ m # NoModel => Approved(p, m)
    /\ chosen' = [chosen EXCEPT ![p] = m]
    /\ UNCHANGED <<hasKey, rows, values, saving, doubt>>

\* The server starts: the table is loaded, and what was under way is gone.
StartAgain ==
    /\ hasKey' \in BOOLEAN
    /\ values' = rows
    /\ saving' = [s \in Admins |-> NoSave]
    /\ doubt' = FALSE
    /\ UNCHANGED <<rows, chosen>>

-----------------------------------------------------------------------------

AssistantsInit ==
    /\ hasKey \in BOOLEAN
    /\ rows = Shipped /\ values = Shipped
    /\ saving = [s \in Admins |-> NoSave]
    /\ chosen = [p \in Provider |-> NoModel]
    /\ doubt = FALSE

AssistantsNext ==
    \/ \E s \in Admins, p \in Provider : BeginSave(s, p)
    \/ \E s \in Admins : Write(s) \/ SelectRows(s) \/ PublishRows(s)
    \/ \E p \in Provider, m \in Model \union {NoModel} : ChooseModel(p, m)
    \/ StartAgain

AssistantsSpec == AssistantsInit /\ [][AssistantsNext]_assistantVars

-----------------------------------------------------------------------------
(* Properties. *)

Quiet == ~ doubt /\ \A s \in Admins : Resting(s)

\* Once a save has finished, and none is under way, a model that was
\* unticked, a provider that was switched off or one without its key is not
\* asked again, by the mailboxes that had chosen it either (ollama.go:62,
\* claude.go:88).  Excused after a Load that failed or crossed another.
AskedWithLeave ==
    Quiet => \A want \in Provider \union {""} :
                \A p \in AssistantFor(want) \union AssistantNamed(want) :
                    /\ rows[p].enabled /\ Configured(p)
                    /\ chosen[p] \in rows[p].approved
=============================================================================
