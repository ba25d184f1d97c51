------------------------------- MODULE TgApi -------------------------------
(***************************************************************************)
(* tgapi: what Client.do makes of an exchange with the Bot API, and the    *)
(* errors its callers tell apart.                                          *)
(***************************************************************************)

CONSTANT Nothing     \* the result of a call that failed

(***************************************************************************)
(* An exchange: the request or its response is lost, the response is not   *)
(* the JSON that was expected ("junk"), Telegram refuses the call, or it   *)
(* answers it with a result.                                               *)
(***************************************************************************)
Lost                == [kind |-> "lost"]
Junk                == [kind |-> "junk"]
Refused(code, desc) == [kind |-> "refused", code |-> code, desc |-> desc]
Ok(result)          == [kind |-> "ok", result |-> result]

(***************************************************************************)
(* A description matters in one respect: whether it contains the phrase    *)
(* "user is deactivated".                                                  *)
(***************************************************************************)
Unauthorized == Refused(401, "other")
Deactivated  == Refused(403, "user is deactivated")
Forbidden    == Refused(403, "other")
RateLimited  == Refused(429, "other")
ServerError  == Refused(500, "other")

(***************************************************************************)
(* What may become of a call whatever it asks for.                         *)
(***************************************************************************)
Failures == {Lost, Junk, RateLimited, ServerError, Forbidden}

\* Slip: every 403 is taken for a deleted bot.
ClassifyByCode(code, desc) ==
  CASE code = 401 -> "ErrUnauthorized"
    [] code = 403 -> "ErrBotDeactivated"
    [] code = 429 -> "ErrTooManyRequests"
    [] OTHER      -> "APIError"

classify(code, desc) ==
  CASE code = 401                                 -> "ErrUnauthorized"
    [] code = 403 /\ desc = "user is deactivated" -> "ErrBotDeactivated"
    [] code = 429                                 -> "ErrTooManyRequests"
    [] OTHER                                      -> "APIError"

(***************************************************************************)
(* The error of a call, "nil" if there is none, and its result.            *)
(***************************************************************************)
do(x) ==
  CASE x.kind \in {"lost", "junk"} -> [err |-> "transport", result |-> Nothing]
    [] x.kind = "refused"          -> [err |-> classify(x.code, x.desc), result |-> Nothing]
    [] x.kind = "ok"               -> [err |-> "nil", result |-> x.result]

IsUnauthorized(err)   == err = "ErrUnauthorized"
IsBotDeactivated(err) == err = "ErrBotDeactivated"
=============================================================================
