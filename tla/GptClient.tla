----------------------------- MODULE GptClient -----------------------------
(***************************************************************************)
(* One GPT session of server/gpt_client.c, as handleClient uses it: does   *)
(* the session exist, how many messages does its fixed array hold, and how *)
(* can a call end.  The texts are abstracted; a call's outcome is chosen   *)
(* from the ways the service, the network and libcurl can behave:          *)
(*   "reply"        HTTP answered, parsed, short enough for one JSON line  *)
(*   "longReply"    as "reply", but the JSON line built from it does not   *)
(*                  fit its 1024-byte buffer                               *)
(*   "failed"       transport error, time-out after 30 s, or a body that   *)
(*                  is not the JSON expected                               *)
(*   "noHandle"     curl_easy_init failed                                  *)
(*   "nullContent"  an empty body or a null content, handed to             *)
(*                  json_tokener_parse or strncpy as NULL                  *)
(*   "unavailable"  there is no session, so no call is made                *)
(***************************************************************************)
EXTENDS Integers

CONSTANTS MaxHistory,   \* MAX_CONVERSATION_HISTORY, 50 in the code
          GptFaults     \* which of the faults below this instance allows

ASSUME GptAssumption ==
    /\ MaxHistory \in Nat \ {0}
    /\ GptFaults \subseteq {"noSession", "noHandle", "failed", "longReply", "nullContent"}

VARIABLES gpt_session,    \* is the session pointer non-null
          message_count   \* session->message_count

gptVars == <<gpt_session, message_count>>

GptInit == gpt_session = FALSE /\ message_count = 0

\* gpt_create_session, gpt_load_prompt_template and gpt_initialize_session:
\* any of them may fail, and then the session pointer is NULL.
gpt_create_session ==
    \E ok \in IF "noSession" \in GptFaults THEN BOOLEAN ELSE {TRUE} :
        /\ gpt_session' = ok
        /\ message_count' = IF ok THEN 1 ELSE 0

GptOutcomes ==
    IF gpt_session THEN {"reply"} \cup (GptFaults \ {"noSession"})
    ELSE {"unavailable"}

Replied(outcome) == outcome \in {"reply", "longReply"}

\* How many messages a call appends.  The user's message is appended before
\* the request and stays when the request fails; the index is not checked.
\* The assistant's message is appended only below the limit.
Appended(outcome) ==
    IF outcome \in {"unavailable", "noHandle"} THEN 0
    ELSE IF Replied(outcome) /\ message_count + 1 < MaxHistory - 1 THEN 2
    ELSE 1

gpt_send_message(outcome) ==
    /\ message_count' = message_count + Appended(outcome)
    /\ UNCHANGED gpt_session

gpt_destroy_session == gpt_session' = FALSE /\ UNCHANGED message_count
=============================================================================
