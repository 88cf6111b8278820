------------------------------ MODULE QuoteBoard ------------------------------
(* What the price feed promises: what is posted are the answers to one round *)
(* of questions, to all of them and to nothing else, in place of whatever    *)
(* was posted before.  Two quotes that are read together were fetched        *)
(* together, and an answer to an earlier round is never posted.              *)
CONSTANTS Tickers, Prices

VARIABLES
  tracked,         \* the tickers to ask for; never fewer
  asked,           \* the tickers of the last round
  answers,         \* what has been answered in it
  board            \* the quotes that are posted

NoQuotes == [t \in {} |-> t]

Init == /\ tracked \in SUBSET Tickers
        /\ asked = tracked /\ answers = NoQuotes /\ board = NoQuotes

TracksMore == tracked' \in SUBSET Tickers /\ tracked \subseteq tracked'

Track == TracksMore /\ UNCHANGED <<asked, answers, board>>

Ask == /\ TracksMore
       /\ asked' = tracked' /\ answers' = NoQuotes
       /\ UNCHANGED board

Answer == /\ \E S \in SUBSET asked : answers' \in [S -> Prices]
          /\ UNCHANGED <<tracked, asked, board>>

Drop == answers' = NoQuotes /\ UNCHANGED <<tracked, asked, board>>

Post == /\ DOMAIN answers = asked
        /\ board' = answers /\ answers' = NoQuotes
        /\ UNCHANGED <<tracked, asked>>

Spec == Init /\ [][Track \/ Ask \/ Answer \/ Drop \/ Post]_<<tracked, asked, answers, board>>
=============================================================================
