----------------------------- MODULE ClaudeChat -----------------------------
(***************************************************************************)
(* One question to Claude: a request with two optional parts, a            *)
(* temperature and, for JSON, the opening brace of the answer.  A model    *)
(* may take neither, and says so of one at a time; claudeChat asks again   *)
(* without it.  Reaching the provider at all may fail at any time.         *)
(***************************************************************************)
EXTENDS Naturals

VARIABLE chat

Options == {"temperature", "prefill"}

ChatTypeOK ==
    chat \in [pc : {"asked", "answered", "failed"},
             json : BOOLEAN,            \* chatOpts.JSON
             takes : SUBSET Options,    \* what the model does
             sent : SUBSET Options,     \* what the request has
             prefilled : BOOLEAN,
             attempt : 0 .. 2,
             why : {"", "options", "other"},
             braces : 0 .. 2]           \* that the answer opens with

Question(json, takes) ==
    [pc |-> "asked", json |-> json, takes |-> takes,
     sent |-> IF json THEN Options ELSE {"temperature"},
     prefilled |-> json, attempt |-> 0, why |-> "", braces |-> 0]

ChatInit == \E json \in BOOLEAN, takes \in SUBSET Options : chat = Question(json, takes)

\* A model given the brace goes on after it; asked for JSON without, it
\* writes one.  The brace that was given is put back.
Opened == IF chat.json /\ "prefill" \notin chat.sent THEN 1 ELSE 0
PutBack == IF chat.prefilled THEN 1 ELSE 0

Answer ==
    /\ chat.pc = "asked" /\ chat.sent \subseteq chat.takes
    /\ chat' = [chat EXCEPT !.pc = "answered", !.braces = PutBack + Opened]

TooFew == 1                                    \* mutant: one fewer
\* Retries there are.
Adjustments == 2

BraceKept(c, option) == [c EXCEPT !.sent = @ \ {option}]    \* mutant: not reset
\* What the next request has, and whether the brace is remembered.
Lacking(c, option) ==
    [c EXCEPT !.sent = @ \ {option}, !.prefilled = @ /\ option # "prefill"]

Declines ==
    \E option \in chat.sent \ chat.takes :
        /\ chat.pc = "asked"
        /\ chat' = IF chat.attempt >= Adjustments
                   THEN [chat EXCEPT !.pc = "failed", !.why = "options"]
                   ELSE [Lacking(chat, option) EXCEPT !.attempt = @ + 1]

\* No key, no credit, no such model, out of reach, out of time.
Unreached ==
    /\ chat.pc = "asked"
    /\ chat' = [chat EXCEPT !.pc = "failed", !.why = "other"]

Again ==
    /\ chat.pc # "asked"
    /\ \E json \in BOOLEAN, takes \in SUBSET Options : chat' = Question(json, takes)

ChatNext == Answer \/ Declines \/ Unreached \/ Again

ChatSpec == ChatInit /\ [][ChatNext]_chat

\* What a model does not take never costs the answer, and the JSON in it
\* opens with one brace, whoever wrote it (claude.go:383, 432).
AnswersWhole ==
    /\ chat.why # "options"
    /\ chat.pc = "answered" => chat.braces = (IF chat.json THEN 1 ELSE 0)
=============================================================================
