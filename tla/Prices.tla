--------------------------------- MODULE Prices ---------------------------------
(*******************************************************************************)
(* The cache of rates and the conversions that read it.  A poll asks each      *)
(* source at an interval and stores the answer with a time to live; the polls  *)
(* do not wait for each other.  A conversion of MON reads the two rates, and   *)
(* reads the second again for its last factor; a rate that is missing is asked *)
(* of the source and not stored.  Time is a tick, the unit of the constants.   *)
(*******************************************************************************)
EXTENDS Naturals

CONSTANTS
  Conversions, \* requests and webhook jobs that convert
  Feeds,
  Rates,       \* rates that the source of each feed may answer
  Interval, TTL, \* of each feed, in ticks
  Latency,     \* the ticks within which a poll is answered or fails
  NoRate,      \* no rate: none is cached, or none was read
  MaxSetbacks  \* bound: failed polls and restarts

ASSUME FeedsAssumption == {"mon", "ngn"} = Feeds
ASSUME TimesAssumption ==
  /\ Interval \in [Feeds -> Nat \ {0}] /\ TTL \in [Feeds -> Nat \ {0}] /\ Latency \in [Feeds -> Nat]
\* Both times to live are two intervals: that of NGN is not configured longer than its
\* default.
ASSUME TimeToLiveAssumption == \A f \in Feeds : TTL[f] >= 2 * Interval[f]
ASSUME NoRateAssumption == \A f \in Feeds : NoRate \notin Rates[f]
ASSUME MaxSetbacksAssumption == MaxSetbacks \in Nat

VARIABLES
  cached, \* each feed's rate in Redis, or NoRate
  left,   \* ticks until the key expires
  polls,  \* the polls in flight: since when, and what the source answered
  timer,  \* ticks until the next poll is due
  up,     \* the caches have been warmed: the timers and the requests are on
  conversion, \* each conversion's control point and the rates of ngn it has read
  missed, \* history: polls of a feed that failed since one was stored; the start counts
  moved,  \* history: conversions whose rate of ngn was stored, asked for or lost on the way
  setbacks

priceVars == <<cached, left, polls, timer, up, conversion, missed, moved, setbacks>>

ConversionPoints == {"idle", "mon", "monLive", "ngn", "ngnLive", "again", "againLive", "done"}
Idle == [at |-> "idle", first |-> NoRate, second |-> NoRate]

Asked(f) == {[age |-> 0, rate |-> rate] : rate \in Rates[f]}

\* onModuleInit asks both sources.
WarmUp(asked) == \E mon \in Asked("mon"), ngn \in Asked("ngn") :
  asked = [f \in Feeds |-> IF f = "mon" THEN {mon} ELSE {ngn}]

PricesInit ==
  /\ cached = [f \in Feeds |-> NoRate]
  /\ left = [f \in Feeds |-> 0]
  /\ WarmUp(polls)
  /\ timer = Interval
  /\ up = FALSE
  /\ conversion = [c \in Conversions |-> Idle]
  /\ missed = [f \in Feeds |-> 1]
  /\ moved = {} /\ setbacks = 0

Cold(f) == cached[f] = NoRate

\* Conversions between their two readings of ngn.
Between == {c \in Conversions : conversion[c].at \in {"again", "againLive"}}

(*********************************** Polls *************************************)

\* The modules are up when both polls have settled, well or not.
ComeUp ==
  /\ ~up /\ \A f \in Feeds : polls[f] = {}
  /\ up' = TRUE
  /\ UNCHANGED <<cached, left, polls, timer, conversion, missed, moved, setbacks>>

\* refreshMonUsdt every minute, refreshUsdNgn every hour.
Ask(f) ==
  /\ up /\ timer[f] = 0
  /\ timer' = [timer EXCEPT ![f] = Interval[f]]
  /\ \E poll \in Asked(f) : polls' = [polls EXCEPT ![f] = @ \cup {poll}]
  /\ UNCHANGED <<cached, left, up, conversion, missed, moved, setbacks>>

\* Variant: the time to live is one interval.
TimeToLiveInterval(f) == Interval[f]
TimeToLive(f) == TTL[f]

\* The answer is stored, whatever was asked and stored since.
Refresh(f) ==
  \E poll \in polls[f] :
    /\ polls' = [polls EXCEPT ![f] = @ \ {poll}]
    /\ cached' = [cached EXCEPT ![f] = poll.rate]
    /\ left' = [left EXCEPT ![f] = TimeToLive(f)]
    /\ missed' = [missed EXCEPT ![f] = 0]
    /\ moved' = IF f = "ngn" THEN moved \cup Between ELSE moved
    /\ UNCHANGED <<timer, up, conversion, setbacks>>

\* Variant: a failed poll deletes the key.
FailRefreshDropping(f) ==
  /\ setbacks < MaxSetbacks
  /\ \E poll \in polls[f] : polls' = [polls EXCEPT ![f] = @ \ {poll}]
  /\ cached' = [cached EXCEPT ![f] = NoRate]
  /\ left' = [left EXCEPT ![f] = 0]
  /\ missed' = [missed EXCEPT ![f] = @ + 1]
  /\ setbacks' = setbacks + 1
  /\ UNCHANGED <<timer, up, conversion, moved>>

\* A poll that fails, or whose answer lacks the rate, is logged and leaves the key.  For
\* MON, whose provider has a mock price, it is Redis that refuses the write.
FailRefresh(f) ==
  /\ setbacks < MaxSetbacks
  /\ \E poll \in polls[f] : polls' = [polls EXCEPT ![f] = @ \ {poll}]
  /\ missed' = [missed EXCEPT ![f] = @ + 1]
  /\ setbacks' = setbacks + 1
  /\ UNCHANGED <<cached, left, timer, up, conversion, moved>>

\* A tick passes when nothing is due: no start, no poll, no answer.
Tick ==
  /\ up \/ \E f \in Feeds : polls[f] # {}
  /\ up => \A f \in Feeds : timer[f] > 0
  /\ \A f \in Feeds : \A poll \in polls[f] : poll.age < Latency[f]
  /\ timer' = IF up THEN [f \in Feeds |-> timer[f] - 1] ELSE timer
  /\ polls' = [f \in Feeds |-> {[poll EXCEPT !.age = @ + 1] : poll \in polls[f]}]
  /\ left' = [f \in Feeds |-> IF left[f] = 0 THEN 0 ELSE left[f] - 1]
  /\ cached' = [f \in Feeds |-> IF left[f] <= 1 THEN NoRate ELSE cached[f]]
  /\ moved' = IF left["ngn"] = 1 THEN moved \cup Between ELSE moved
  /\ UNCHANGED <<up, conversion, missed, setbacks>>

\* The process restarts; Redis keeps what is cached.
Restart ==
  /\ setbacks < MaxSetbacks
  /\ up' = FALSE
  /\ WarmUp(polls')
  /\ timer' = Interval
  /\ conversion' = [c \in Conversions |-> Idle]
  /\ missed' = [f \in Feeds |-> 1]
  /\ moved' = {}
  /\ setbacks' = setbacks + 1
  /\ UNCHANGED <<cached, left>>

(******************************** Conversions **********************************)

Goto(c, point) == conversion' = [conversion EXCEPT ![c].at = point]
OnlyConversions == UNCHANGED <<cached, left, polls, timer, up, missed, setbacks>>

\* convertMonToBooks begins with the price of MON, convertNgnToBooks and
\* convertBooksToNgn have only the last reading of ngn.
Convert(c) ==
  /\ up /\ conversion[c].at = "idle"
  /\ Goto(c, "mon") \/ Goto(c, "again")
  /\ UNCHANGED moved /\ OnlyConversions

\* getMonUsdtPrice: the cache, or else the source, which always has an answer.
GetMonUsdtPrice(c) ==
  /\ \/ conversion[c].at = "mon" /\ Goto(c, IF Cold("mon") THEN "monLive" ELSE "ngn")
     \/ conversion[c].at = "monLive" /\ Goto(c, "ngn")
  /\ UNCHANGED moved /\ OnlyConversions

\* What a reading of ngn finds, and where it leaves the conversion.
Got(c, rate) ==
  /\ conversion' = [conversion EXCEPT ![c] =
       IF @.at \in {"ngn", "ngnLive"} THEN [@ EXCEPT !.at = "again", !.first = rate]
       ELSE [@ EXCEPT !.at = "done", !.second = rate]]
  /\ OnlyConversions

\* Variant: every reading asks the source.
GetUsdNgnRateLive(c) ==
  /\ conversion[c].at \in {"ngn", "again"}
  /\ \E rate \in Rates["ngn"] : Got(c, rate)
  /\ UNCHANGED moved

\* getUsdNgnRate: the cache, or else the source.
GetUsdNgnRate(c) ==
  /\ conversion[c].at \in {"ngn", "again"}
  /\ IF Cold("ngn")
     THEN /\ Goto(c, IF conversion[c].at = "ngn" THEN "ngnLive" ELSE "againLive")
          /\ OnlyConversions
     ELSE Got(c, cached["ngn"])
  /\ UNCHANGED moved

\* A live answer: it is not stored.  It can fail, and the conversion with it.
AskLive(c) ==
  /\ conversion[c].at \in {"ngnLive", "againLive"}
  /\ \/ \E rate \in Rates["ngn"] : Got(c, rate) /\ moved' = moved \cup {c}
     \/ /\ conversion' = [conversion EXCEPT ![c] = Idle]
        /\ moved' = moved \ {c}
        /\ OnlyConversions

Finish(c) ==
  /\ conversion[c].at = "done"
  /\ conversion' = [conversion EXCEPT ![c] = Idle]
  /\ moved' = moved \ {c}
  /\ OnlyConversions

Work(c) == Convert(c) \/ GetMonUsdtPrice(c) \/ GetUsdNgnRate(c) \/ AskLive(c) \/ Finish(c)

PricesNext ==
  \/ ComeUp \/ Tick \/ Restart
  \/ \E f \in Feeds : Ask(f) \/ Refresh(f) \/ FailRefresh(f)
  \/ \E c \in Conversions : Work(c)

\* Time passes, timers fire, and a poll is settled within its latency.
PricesFairness ==
  /\ WF_priceVars(Tick) /\ WF_priceVars(ComeUp)
  /\ \A f \in Feeds : WF_priceVars(Ask(f)) /\ WF_priceVars(Refresh(f))

PricesSpec == PricesInit /\ [][PricesNext]_priceVars
FairPricesSpec == PricesSpec /\ PricesFairness

(********************************* Properties **********************************)

\* Every variable keeps its type.
PricesTypeOK ==
  /\ \A f \in Feeds : cached[f] \in Rates[f] \cup {NoRate}
  /\ \A f \in Feeds : left[f] \in 0..TTL[f] /\ timer[f] \in 0..Interval[f]
  /\ \A f \in Feeds : polls[f] \subseteq [age : 0..Latency[f], rate : Rates[f]]
  /\ up \in BOOLEAN
  /\ conversion \in [Conversions -> [at : ConversionPoints,
                                    first : Rates["ngn"] \cup {NoRate},
                                    second : Rates["ngn"] \cup {NoRate}]]
  /\ missed \in [Feeds -> 0..MaxSetbacks + 1]
  /\ moved \subseteq Conversions
  /\ setbacks \in 0..MaxSetbacks

\* A key is missing only while a poll is slow, or after a failure: one failed poll
\* leaves it missing until the next, which comes as late as the warm-up took, and
\* only two in a row for longer.  Where none failed, a warm-up that waited an interval
\* for the other source does the same.
ColdOnlyWhile ==
  up => \A f \in Feeds : Cold(f) =>
    \/ missed[f] >= 2
    \/ missed[f] = 1 /\ polls[f] # {}
    \/ \E g \in Feeds \ {f} :
         timer[f] <= Latency[g] /\ (missed[f] = 1 \/ Interval[f] <= Latency[g])
    \/ \E poll \in polls[f] : poll.age > 0

\* The two factors of ngn in a conversion of MON are one rate, the one that is
\* recorded with the transaction, unless a poll, an expiry or a live answer came
\* between the two readings.
RatesAgree ==
  \A c \in Conversions :
    conversion[c].at = "done" /\ conversion[c].first # NoRate =>
      conversion[c].second = conversion[c].first \/ c \in moved

\* Once failures and restarts are over, the rate of a source that answers within
\* an interval is in the cache and stays there.
StaysWarm == \A f \in Feeds : Latency[f] < Interval[f] => <>[](~Cold(f))
=================================================================================
