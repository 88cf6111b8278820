---------------------------- MODULE QuoteSource ----------------------------
(* What the program makes of the answers of Yahoo Finance: one lookup is   *)
(* three requests, for a cookie, for a crumb and for the quote itself, and *)
(* every one of them may be refused, answered with an error status or      *)
(* answered with something that is not what was hoped for.                 *)
EXTENDS Sequences, SequencesExt

(* An answer: the transfer as a whole, the lines of its headers that carry *)
(* a cookie in the order they came in, and its body.                       *)
Answers(cookies, bodies) ==
  [transfer : {"ok", "badStatus", "failed"}, cookies : cookies, body : bodies]

Err(type) == [ok |-> FALSE, type |-> type]
Ok(value) == [ok |-> TRUE, value |-> value]

(* One GET. A transfer that fails says so before any status is looked at.  *)
Get(answer) ==
  CASE answer.transfer = "failed"    -> Err("CurlPerform")
    [] answer.transfer = "badStatus" -> Err("BadStatus")
    [] OTHER                         -> Ok(answer.body)

(* A request without an address never leaves the program.                  *)
GetFrom(request, answer) ==
  IF request = "empty" THEN Err("CurlPerform") ELSE Get(answer)

(* Headers are kept in a map: of several of one name the last one stays.   *)
SetCookie(answer) ==
  IF answer.cookies = << >> THEN "none" ELSE Last(answer.cookies)

(* The one cookie that is looked for.                                      *)
ExtractSessionCookie(header) == IF header = "A3" THEN "A3" ELSE ""

(* The headers of an error status are as good as those of a success; the   *)
(* address that hands out the cookie answers with one.                     *)
Authenticate(cookieAnswer, crumbAnswer) ==
  CASE cookieAnswer.transfer = "failed"     -> Err("CurlPerform")
    [] /\ cookieAnswer.transfer # "failed"
       /\ ExtractSessionCookie(SetCookie(cookieAnswer)) = ""
         -> Err("AuthError")
    [] OTHER ->
         LET crumb == Get(crumbAnswer)
         IN IF ~crumb.ok THEN crumb
            ELSE IF crumb.value = "" THEN Err("AuthError")
            ELSE Ok(crumb.value)

(* A new session for every request; without one the request is empty.      *)
BuildRequest(cookieAnswer, crumbAnswer) ==
  IF Authenticate(cookieAnswer, crumbAnswer).ok THEN "quote" ELSE "empty"

GetRequest(cookieAnswer, crumbAnswer, answer) ==
  GetFrom(BuildRequest(cookieAnswer, crumbAnswer), answer)

(* The body of a quote is [symbol, currency], or text that is no JSON. A   *)
(* currency the program does not know makes the ticker invalid.            *)
NoJson == [symbol |-> "", currency |-> "noJson"]

TickerInfo(body, currencies) ==
  CASE body = NoJson                  -> Err("ParseError")
    [] /\ body # NoJson
       /\ body.currency \notin currencies -> Err("InvalidTicker")
    [] OTHER                          -> Ok(body)

FetchTickerInfo(cookieAnswer, crumbAnswer, answer, currencies) ==
  LET reply == GetRequest(cookieAnswer, crumbAnswer, answer)
  IN IF reply.ok THEN TickerInfo(reply.value, currencies) ELSE reply

(* A stock is what the answer says, whatever was asked for: the symbol is  *)
(* read from it.                                                           *)
Stock(info) == info.symbol

(* What a lookup may come to, over all answers: the stock that was found,  *)
(* or one of the errors.                                                   *)
Lookup(cookies, crumbs, quotes, currencies) ==
  { IF f.ok THEN Ok(Stock(f.value)) ELSE f :
      f \in { FetchTickerInfo(c, k, q, currencies) :
                c \in Answers(cookies, {""}),
                k \in Answers({<< >>}, crumbs),
                q \in Answers({<< >>}, quotes) } }
=============================================================================
