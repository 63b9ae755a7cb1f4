---------------------------- MODULE TelegramErrors ----------------------------
(***************************************************************************)
(* What TelegramService.sendMessage makes of an answer of the Bot API      *)
(* (src/src/telegram/telegram.service.ts, telegram.errors.ts).  An answer  *)
(* is abstracted to what the classification tells apart: the HTTP status,  *)
(* the body's error_code and retry_after when it has them, and whether the *)
(* description is worded like throttling or like a permanent refusal.      *)
(***************************************************************************)
EXTENDS Naturals

Missing == 1000000      \* body?.field is undefined

Statuses == {200, 400, 401, 403, 404, 409, 429, 500, 502}
ErrorCodes == {Missing, 400, 403, 409, 429, 500}
RetryAfters == {Missing, 0, 3}
Wordings == {"too many requests", "permanent pattern", "other"}

\* The answers with an error body, and the ways a call may end otherwise.
ErrorAnswers ==
    [status : Statuses, errorCode : ErrorCodes, retryAfter : RetryAfters,
     wording : Wordings]

Ok == [ok |-> TRUE, retryable |-> FALSE, retryAfterMs |-> 0]

Failure(retryable, retryAfterMs) ==
    [ok |-> FALSE, retryable |-> retryable, retryAfterMs |-> retryAfterMs]

OrElse(value, default) == IF value = Missing THEN default ELSE value

ErrorCode(answer) == OrElse(answer.errorCode, answer.status)

IsThrottled(answer) ==
    ErrorCode(answer) = 429 \/ answer.wording = "too many requests"

IsPermanent(answer) ==
    \/ ErrorCode(answer) \in {400, 401, 403, 404}
    \/ answer.wording = "permanent pattern"

\* retryAfterMs is 0 when the field is left out: 0 and undefined are both
\* falsy where the processor tests it.
classifyTelegramFailure(answer) ==
    IF IsThrottled(answer)
    THEN Failure(TRUE, OrElse(answer.retryAfter, 1) * 1000)
    ELSE IF ErrorCode(answer) >= 500
    THEN Failure(TRUE, 0)
    ELSE Failure(~IsPermanent(answer), 0)

classifyTransportFailure == Failure(TRUE, 0)
=============================================================================
