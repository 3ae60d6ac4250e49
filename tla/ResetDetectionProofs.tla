------------------------ MODULE ResetDetectionProofs ------------------------
(***************************************************************************)
(* EventsAreReal, AnnouncedOnce, FirstSight and NewestIsShown of           *)
(* ResetDetection, proved for any accounts, periods, ages and number of    *)
(* observations.  The argument is that observations of one account,        *)
(* ordered by the time of the answer they carry, see its periods in order  *)
(* (Ordered); an event then announces what lies between two recorded       *)
(* observations (Evidence), and the later event has the later              *)
(* observations.                                                           *)
(***************************************************************************)
EXTENDS ResetDetection, TLAPS, WellFoundedInduction, FiniteSetTheorems

\* The types the proofs rest on.  Ids and keys of rows play no part in them.
Typed(x) == /\ x.account \in Account \cup {Unknown}
            /\ x.at \in Nat /\ x.src \in Nat /\ x.ends \in Nat /\ x.left \in 0..Full

Types ==
  /\ now \in Nat
  /\ left \in [Account -> 0..Full] /\ ends \in [Account -> Nat]
  /\ answer \in [Account -> [src : Nat, ends : Nat, left : 0..Full]]
  /\ \A x \in observed : Typed(x)

\* A period of account a ends at t: the current one, or one that is over.
Period(a, t) == t = ends[a] \/ (t <= now /\ <<a, t>> \in ended)

PeriodNext(a, t) == t = ends'[a] \/ (t <= now' /\ <<a, t>> \in ended')

\* What was seen when the account answered at s is of the period of t or an
\* earlier one.
Precedes(s, e, t, f) == s <= t => e = f \/ e <= t

Answers ==
  \A a \in Account : /\ ends[a] > now
                     /\ answer[a].src <= now /\ answer[a].src < answer[a].ends
                     /\ Period(a, answer[a].ends)

Sightings ==
  \A x \in observed :
    /\ x.src <= x.at /\ x.at <= now /\ x.src < x.ends
    /\ x.account \in Account =>
         /\ Period(x.account, x.ends)
         /\ x.src <= answer[x.account].src
         /\ Precedes(x.src, x.ends, answer[x.account].src, answer[x.account].ends)

\* Later observations carry later answers, and later answers later periods.
Ordered ==
  \A x, y \in observed : x.account = y.account /\ x.account \in Account =>
    /\ x.at < y.at => x.src <= y.src
    /\ Precedes(x.src, x.ends, y.src, y.ends)

\* Two recorded observations confirm each event.
Shows(p, c, e) ==
  /\ p.account = e.account /\ c.account = e.account /\ e.account \in Account
  /\ p.at <= p.ends /\ p.ends <= c.at /\ p.ends < c.ends
  /\ e.old = p.ends /\ e.new = c.ends /\ e.at = c.at

Evidence ==
  /\ journal \subseteq observed
  /\ \A e \in events : \E p, c \in journal : Shows(p, c, e)

IInv == Types /\ Answers /\ Sightings /\ Ordered /\ Evidence /\ EventsAreReal /\ AnnouncedOnce

------------------------------------------------------------------------------
LEMMA InitIInv == Init => IInv
<1> SUFFICES ASSUME Init PROVE IInv  OBVIOUS
<1> USE DetectionAssumption
<1>1. Types
  <2>1. left \in [Account -> 0..Full] /\ ends \in [Account -> Nat]  BY DEF Init
  <2>2. \A a \in Account : left[a] \in 0..Full /\ ends[a] \in Nat  BY <2>1
  <2> QED  BY <2>1, <2>2 DEF Init, Types, Live
<1>2. \A a \in Account : ends[a] \in Nat /\ ends[a] > 0
  <2>1. \A a \in Account : ends[a] \in Lengths  BY DEF Init
  <2>2. \A n \in Lengths : n \in Nat /\ n > 0  OBVIOUS
  <2> QED  BY <2>1, <2>2
<1>3. Answers  BY <1>2 DEF Init, Answers, Live, Period
<1> QED  BY <1>1, <1>3 DEF Init, IInv, Sightings, Ordered, Evidence, EventsAreReal, AnnouncedOnce

------------------------------------------------------------------------------
(* Time passes. *)

\* A period stays the current one or becomes one that is over.
LEMMA TickPeriods ==
  ASSUME IInv, Tick, NEW a \in Account
  PROVE  /\ \A t \in Nat : Period(a, t) => PeriodNext(a, t)
         /\ ends'[a] \in Nat /\ ends'[a] > now'
         /\ now' = now + 1 /\ now' \in Nat
         /\ Precedes(answer[a].src, answer[a].ends, now', ends'[a])
<1> USE DetectionAssumption
<1>1. now \in Nat /\ now' = now + 1 /\ ends[a] \in Nat /\ ends[a] > now
  BY DEF IInv, Types, Answers, Tick
<1>2. PICK length \in [Account -> Lengths] :
        ends' = [b \in Account |-> IF Ending(b) THEN now' + length[b] ELSE ends[b]]
  BY DEF Tick
<1>3. length[a] \in Nat \ {0}  BY <1>2
<1>4. ends'[a] = IF ends[a] = now + 1 THEN now' + length[a] ELSE ends[a]  BY <1>2 DEF Ending
<1>5. ended \subseteq ended' /\ (ends[a] = now + 1 => <<a, now'>> \in ended')
  BY DEF Tick, Ending
<1>6. ends'[a] \in Nat /\ ends'[a] > now'  BY <1>1, <1>3, <1>4
<1>7. \A t \in Nat : Period(a, t) => PeriodNext(a, t)  BY <1>1, <1>4, <1>5 DEF Period, PeriodNext
<1>8. answer[a].ends \in Nat /\ answer[a].src \in Nat /\ Period(a, answer[a].ends)
  BY DEF IInv, Types, Answers
<1>9. Precedes(answer[a].src, answer[a].ends, now', ends'[a])
  BY <1>1, <1>4, <1>8 DEF Period, Precedes
<1> QED  BY <1>1, <1>6, <1>7, <1>9

LEMMA TickIInv == ASSUME IInv, Tick PROVE IInv'
<1> USE DetectionAssumption
<1>1. UNCHANGED <<observed, database>> /\ ended \subseteq ended'  BY DEF Tick
<1>2. now \in Nat /\ now' = now + 1  BY DEF IInv, Types, Tick
<1>3. \A a \in Account : /\ \A t \in Nat : Period(a, t) => PeriodNext(a, t)
                         /\ ends'[a] \in Nat /\ ends'[a] > now'
                         /\ Precedes(answer[a].src, answer[a].ends, now', ends'[a])
  BY TickPeriods
<1>4. ends' \in [Account -> Nat] /\ left' \in [Account -> 0..Full]
  <2>1. ends' = [a \in Account |-> ends'[a]]  BY DEF Tick
  <2> QED  BY <2>1, <1>3 DEF Tick
<1>5. PICK current \in SUBSET Account :
        answer' = [a \in Account |-> IF a \in current THEN Live(a)' ELSE answer[a]]
  BY DEF Tick
<1>6. \A a \in Account : answer'[a] = answer[a]
                         \/ answer'[a] = [src |-> now', ends |-> ends'[a], left |-> left'[a]]
  BY <1>5 DEF Live
<1>7. \A a \in Account : answer[a] \in [src : Nat, ends : Nat, left : 0..Full]
  BY DEF IInv, Types
<1>8. \A a \in Account : answer'[a] \in [src : Nat, ends : Nat, left : 0..Full]
  <2> SUFFICES ASSUME NEW a \in Account
               PROVE  answer'[a] \in [src : Nat, ends : Nat, left : 0..Full]
    OBVIOUS
  <2>1. CASE answer'[a] = answer[a]  BY <1>7, <2>1
  <2>2. CASE answer'[a] = [src |-> now', ends |-> ends'[a], left |-> left'[a]]
    <3>1. now' \in Nat  BY <1>2
    <3>2. ends'[a] \in Nat /\ left'[a] \in 0..Full  BY <1>4
    <3> QED  BY <2>2, <3>1, <3>2
  <2> QED  BY <1>6, <2>1, <2>2
<1>9. Types'
  <2>1. answer' \in [Account -> [src : Nat, ends : Nat, left : 0..Full]]  BY <1>5, <1>8
  <2>2. \A x \in observed' : Typed(x)'  BY <1>1 DEF IInv, Types, Typed
  <2> QED  BY <1>2, <1>4, <2>1, <2>2 DEF Types
<1>10. Answers'
  <2> SUFFICES ASSUME NEW a \in Account
               PROVE  /\ ends'[a] > now'
                      /\ answer'[a].src <= now' /\ answer'[a].src < answer'[a].ends
                      /\ PeriodNext(a, answer'[a].ends)
    BY DEF Answers, Period, PeriodNext
  <2>1. ends'[a] > now' /\ ends'[a] \in Nat /\ PeriodNext(a, ends'[a])  BY <1>3 DEF PeriodNext
  <2>2. /\ answer[a].src <= now' /\ answer[a].src < answer[a].ends
        /\ PeriodNext(a, answer[a].ends)
    <3>1. answer[a].src <= now /\ answer[a].src < answer[a].ends /\ Period(a, answer[a].ends)
      BY DEF IInv, Answers
    <3>2. answer[a].src \in Nat /\ answer[a].ends \in Nat  BY <1>7
    <3> QED  BY <1>2, <1>3, <3>1, <3>2
  <2>3. CASE answer'[a] = answer[a]  BY <2>1, <2>2, <2>3
  <2>4. CASE answer'[a] = [src |-> now', ends |-> ends'[a], left |-> left'[a]]
    <3>1. answer'[a].src = now' /\ answer'[a].ends = ends'[a]  BY <2>4
    <3> QED  BY <1>2, <2>1, <3>1
  <2> QED  BY <1>6, <2>3, <2>4
<1>11. Sightings'
  <2> SUFFICES ASSUME NEW x \in observed
               PROVE  /\ x.src <= x.at /\ x.at <= now' /\ x.src < x.ends
                      /\ x.account \in Account =>
                           /\ PeriodNext(x.account, x.ends)
                           /\ x.src <= answer'[x.account].src
                           /\ Precedes(x.src, x.ends, answer'[x.account].src, answer'[x.account].ends)
    BY <1>1 DEF Sightings, Precedes, Period, PeriodNext
  <2>1. Typed(x) /\ x.src <= x.at /\ x.at <= now /\ x.src < x.ends
    BY DEF IInv, Types, Sightings
  <2>2. x.src <= x.at /\ x.at <= now' /\ x.src < x.ends  BY <1>2, <2>1 DEF Typed
  <2>3. ASSUME x.account \in Account
        PROVE  /\ PeriodNext(x.account, x.ends)
               /\ x.src <= answer'[x.account].src
               /\ Precedes(x.src, x.ends, answer'[x.account].src, answer'[x.account].ends)
    <3>1. Period(x.account, x.ends) /\ x.src <= answer[x.account].src
          /\ Precedes(x.src, x.ends, answer[x.account].src, answer[x.account].ends)
      BY <2>3 DEF IInv, Sightings
    <3>2. PeriodNext(x.account, x.ends)  BY <1>3, <2>1, <2>3, <3>1 DEF Typed
    <3>3. x.ends = ends'[x.account] \/ x.ends <= now'  BY <3>2 DEF PeriodNext
    <3>4. x.src <= now'  BY <1>2, <2>1 DEF Typed
    <3>5. CASE answer'[x.account] = answer[x.account]  BY <3>1, <3>2, <3>5
    <3>6. CASE answer'[x.account] = [src |-> now', ends |-> ends'[x.account],
                                     left |-> left'[x.account]]
      <4>1. answer'[x.account].src = now' /\ answer'[x.account].ends = ends'[x.account]
        BY <3>6
      <4> QED  BY <3>2, <3>3, <3>4, <4>1 DEF Precedes
    <3> QED  BY <1>6, <2>3, <3>5, <3>6
  <2> QED  BY <2>2, <2>3
<1>12. Ordered' /\ Evidence' /\ AnnouncedOnce'
  BY <1>1 DEF IInv, Ordered, Precedes, Evidence, Shows, AnnouncedOnce, Apart, database
<1>13. EventsAreReal'  BY <1>1 DEF IInv, EventsAreReal, database
<1> QED  BY <1>9, <1>10, <1>11, <1>12, <1>13 DEF IInv

------------------------------------------------------------------------------
(* An observation is made. *)

\* The answer of an account is of the current period or an earlier one, and
\* so is a later answer.
LEMMA FetchIInv ==
  ASSUME IInv, NEW a \in Account, NEW identity \in {a, Unknown}, Fetch(a, identity)
  PROVE  IInv'
<1> USE DetectionAssumption
<1>1. UNCHANGED <<now, left, ends, ended, database>>  BY DEF Fetch
<1>2. PICK reply \in {answer[a], Live(a)} :
        /\ answer' = [answer EXCEPT ![a] = reply]
        /\ observed' = observed \cup
             {[id |-> Cardinality(observed) + 1, account |-> identity, at |-> now,
               src |-> reply.src, ends |-> reply.ends, left |-> reply.left]}
  BY DEF Fetch
<1> DEFINE new == [id |-> Cardinality(observed) + 1, account |-> identity, at |-> now,
                   src |-> reply.src, ends |-> reply.ends, left |-> reply.left]
<1>3. now \in Nat /\ ends[a] \in Nat /\ ends[a] > now
      /\ Live(a) = [src |-> now, ends |-> ends[a], left |-> left[a]]
  BY DEF IInv, Types, Answers, Live
<1>4. answer[a] \in [src : Nat, ends : Nat, left : 0..Full]
      /\ Live(a) \in [src : Nat, ends : Nat, left : 0..Full]
  BY DEF IInv, Types, Live
<1>5. /\ reply \in [src : Nat, ends : Nat, left : 0..Full]
      /\ reply.src <= now /\ reply.src < reply.ends /\ Period(a, reply.ends)
      /\ answer[a].src <= reply.src
      /\ reply = answer[a] \/ (reply.src = now /\ reply.ends = ends[a])
  <2>1. CASE reply = answer[a]  BY <1>4, <2>1 DEF IInv, Answers
  <2>2. CASE reply = Live(a)
    <3>1. answer[a].src <= now  BY DEF IInv, Answers
    <3> QED  BY <1>3, <1>4, <2>2, <3>1 DEF Period
  <2> QED  BY <2>1, <2>2
<1>6. observed' = observed \cup {new}  BY <1>2
<1>7. /\ new.account = identity /\ new.at = now /\ new.src = reply.src
      /\ new.ends = reply.ends /\ new.left = reply.left
  OBVIOUS
<1> HIDE DEF new
<1>8. answer' \in [Account -> [src : Nat, ends : Nat, left : 0..Full]]
      /\ answer'[a] = reply /\ \A b \in Account : b # a => answer'[b] = answer[b]
  <2>1. answer \in [Account -> [src : Nat, ends : Nat, left : 0..Full]]  BY DEF IInv, Types
  <2> QED  BY <1>2, <1>5, <2>1
<1>9. Types'
  <2>1. Typed(new)  BY <1>3, <1>5, <1>7 DEF Typed
  <2> QED  BY <1>1, <1>6, <1>8, <2>1 DEF IInv, Types, Typed
<1>10. Answers'  BY <1>1, <1>5, <1>8 DEF IInv, Answers, Period
<1>11. ASSUME NEW x \in observed, x.account = a
       PROVE  x.src \in Nat /\ x.ends \in Nat /\ x.at \in Nat /\ x.at <= now /\ x.src < x.ends
              /\ x.src <= reply.src /\ Precedes(x.src, x.ends, reply.src, reply.ends)
  <2>1. Typed(x) /\ x.at <= now /\ x.src < x.ends /\ Period(a, x.ends)
        /\ x.src <= answer[a].src /\ Precedes(x.src, x.ends, answer[a].src, answer[a].ends)
    BY <1>11 DEF IInv, Types, Sightings
  <2>2. x.ends = ends[a] \/ x.ends <= now  BY <2>1 DEF Period
  <2>3. x.src <= reply.src  BY <1>4, <1>5, <2>1 DEF Typed
  <2> QED  BY <1>5, <2>1, <2>2, <2>3 DEF Typed, Precedes
<1>12. Sightings'
  <2> SUFFICES ASSUME NEW x \in observed'
               PROVE  /\ x.src <= x.at /\ x.at <= now /\ x.src < x.ends
                      /\ x.account \in Account =>
                           /\ Period(x.account, x.ends)
                           /\ x.src <= answer'[x.account].src
                           /\ Precedes(x.src, x.ends, answer'[x.account].src, answer'[x.account].ends)
    BY <1>1 DEF Sightings, Precedes, Period
  <2>1. CASE x = new
    <3>1. x.src <= x.at /\ x.at <= now /\ x.src < x.ends  BY <1>3, <1>5, <1>7, <2>1
    <3>2. ASSUME x.account \in Account
          PROVE  x.account = a /\ answer'[a] = reply /\ Period(a, reply.ends)
      BY <1>5, <1>7, <1>8, <2>1, <3>2
    <3>3. x.src = reply.src /\ x.ends = reply.ends /\ reply.src \in Nat  BY <1>5, <1>7, <2>1
    <3> QED  BY <3>1, <3>2, <3>3 DEF Precedes
  <2>2. CASE x \in observed /\ x.account = a
    BY <1>8, <1>11, <2>2 DEF IInv, Sightings
  <2>3. CASE x \in observed /\ x.account # a
    BY <1>8, <2>3 DEF IInv, Sightings
  <2> QED  BY <1>6, <2>1, <2>2, <2>3
<1>13. Ordered'
  <2> SUFFICES ASSUME NEW x \in observed', NEW y \in observed',
                      x.account = y.account, x.account \in Account
               PROVE  /\ x.at < y.at => x.src <= y.src
                      /\ Precedes(x.src, x.ends, y.src, y.ends)
    BY DEF Ordered, Precedes
  <2>1. CASE x \in observed /\ y \in observed  BY <2>1 DEF IInv, Ordered
  <2>2. CASE x = new /\ y = new
    <3>1. ~(new.at < new.at)  BY <1>3, <1>7
    <3> QED  BY <2>2, <3>1 DEF Precedes
  <2>3. CASE x \in observed /\ y = new
    <3>1. x.account = a  BY <1>7, <2>3
    <3> QED  BY <1>7, <1>11, <2>3, <3>1
  <2>4. CASE x = new /\ y \in observed
    <3>1. y.account = a  BY <1>7, <2>4
    <3>2. y.at <= now /\ y.at \in Nat /\ y.src <= reply.src /\ y.src < y.ends
          /\ y.src \in Nat /\ y.ends \in Nat /\ Precedes(y.src, y.ends, reply.src, reply.ends)
      BY <1>11, <2>4, <3>1
    <3>3. ~(x.at < y.at)  BY <1>3, <1>7, <2>4, <3>2
    <3>4. Precedes(x.src, x.ends, y.src, y.ends)  BY <1>5, <1>7, <2>4, <3>2 DEF Precedes
    <3> QED  BY <3>3, <3>4
  <2> QED  BY <1>6, <2>1, <2>2, <2>3, <2>4
<1>14. Evidence' /\ EventsAreReal' /\ AnnouncedOnce'
  BY <1>1, <1>6 DEF IInv, Evidence, Shows, EventsAreReal, AnnouncedOnce, Apart, database
<1> QED  BY <1>9, <1>10, <1>12, <1>13, <1>14 DEF IInv

------------------------------------------------------------------------------
(* An observation is recorded. *)

\* An event that is added is confirmed by the new observation and a latest
\* one before it; no two are added at once.
LEMMA RecordAdds ==
  ASSUME NEW c \in observed, Record(c)
  PROVE  /\ events \subseteq events'
         /\ \A e \in events' \ events :
              \E p \in Previous(c) : c.account # Unknown /\ Confirmed(p, c) /\ e = Event(p, c)
         /\ \A e, f \in events' \ events : e = f
<1>1. PICK new \in (IF c \in journal THEN {{}} ELSE Transitions(c)) :
        events' = events \cup {e \in new : \A f \in events : ~SameId(e, f)}
  BY DEF Record
<1>2. events' \ events \subseteq new /\ events \subseteq events'  BY <1>1
<1>3. CASE new = {}  BY <1>2, <1>3
<1>4. CASE new # {}
  <2>1. c.account # Unknown /\ \E p \in Previous(c) :
          new = (IF Confirmed(p, c) THEN {Event(p, c)} ELSE {})
    BY <1>1, <1>4 DEF Transitions
  <2>2. PICK p \in Previous(c) : new = (IF Confirmed(p, c) THEN {Event(p, c)} ELSE {})
    BY <2>1
  <2>3. Confirmed(p, c) /\ new = {Event(p, c)}  BY <1>4, <2>2
  <2> QED  BY <1>2, <2>1, <2>3
<1> QED  BY <1>3, <1>4

\* An event that is added has its evidence, and comes after those there are:
\* their evidence was recorded before, so the baseline is no older.
LEMMA AddedEvent ==
  ASSUME IInv, NEW c \in observed, NEW p \in Previous(c),
         c.account # Unknown, Confirmed(p, c)
  PROVE  /\ p \in journal /\ Shows(p, c, Event(p, c))
         /\ <<c.account, p.ends>> \in ended
         /\ \A e \in events : e.account = c.account => Apart(e, Event(p, c))
<1> USE DetectionAssumption
<1> DEFINE f == Event(p, c)
<1>1. p \in journal /\ p \in observed /\ p.account = c.account
      /\ \A q \in journal : q.account = c.account => q.at <= p.at
  BY DEF Previous, IInv, Evidence
<1>2. Typed(p) /\ Typed(c)  BY <1>1 DEF IInv, Types
<1>3. c.account \in Account  BY <1>2 DEF Typed
<1>4. p.at <= p.ends /\ p.ends <= c.at /\ p.ends < c.ends  BY <1>2 DEF Confirmed, Typed
<1>5. f.account = c.account /\ f.old = p.ends /\ f.new = c.ends /\ f.at = c.at  BY DEF Event
<1>6. Shows(p, c, f)  BY <1>1, <1>3, <1>4, <1>5 DEF Shows
<1>7. <<c.account, p.ends>> \in ended
  <2>1. now \in Nat /\ ends[c.account] \in Nat /\ ends[c.account] > now
    BY <1>3 DEF IInv, Types, Answers
  <2>2. Period(c.account, p.ends) /\ c.at <= now  BY <1>1, <1>3 DEF IInv, Sightings
  <2> QED  BY <1>2, <1>4, <2>1, <2>2 DEF Period, Typed
<1>8. ASSUME NEW e \in events, e.account = c.account PROVE Apart(e, f)
  <2>1. PICK p0, c0 \in journal : Shows(p0, c0, e)  BY DEF IInv, Evidence
  <2>2. c0 \in observed /\ c0.account = c.account /\ e.new = c0.ends /\ e.at = c0.at
    BY <1>8, <2>1 DEF Shows, IInv, Evidence
  <2>3. Typed(c0) /\ c0.src <= c0.at /\ c0.at <= p.at /\ p.src < p.ends
    BY <1>1, <2>2 DEF IInv, Types, Sightings
  <2>4. /\ c0.at < p.at => c0.src <= p.src
        /\ Precedes(c0.src, c0.ends, p.src, p.ends)
        /\ Precedes(p.src, p.ends, c0.src, c0.ends)
    BY <1>1, <1>3, <2>2 DEF IInv, Ordered
  <2>5. CASE c0.src <= p.src
    <3>1. c0.ends <= p.ends  BY <1>2, <2>3, <2>4, <2>5 DEF Precedes, Typed
    <3> QED  BY <1>5, <2>2, <3>1 DEF Apart
  <2>6. CASE p.src <= c0.src
    <3>1. p.ends = c0.ends \/ p.ends <= c0.src  BY <2>4, <2>6 DEF Precedes
    <3>2. CASE p.ends = c0.ends  BY <1>2, <1>5, <2>2, <3>2 DEF Apart, Typed
    <3>3. CASE p.ends <= c0.src
      <4>1. p.ends = c0.at  BY <1>2, <1>4, <2>3, <3>3 DEF Typed
      <4> QED  BY <1>5, <2>2, <4>1 DEF Apart
    <3> QED  BY <3>1, <3>2, <3>3
  <2> QED  BY <1>2, <2>3, <2>5, <2>6 DEF Typed
<1> QED  BY <1>1, <1>6, <1>7, <1>8

LEMMA RecordIInv == ASSUME IInv, NEW c \in observed, Record(c) PROVE IInv'
<1>1. UNCHANGED <<provider, observed>> /\ journal' = journal \cup {c}  BY DEF Record
<1>2. Types' /\ Answers' /\ Sightings' /\ Ordered'
  BY <1>1 DEF IInv, Types, Typed, Answers, Sightings, Ordered, Precedes, Period, provider
<1>3. \A e \in events' \ events :
        \E p \in Previous(c) : c.account # Unknown /\ Confirmed(p, c) /\ e = Event(p, c)
  BY RecordAdds
<1>4. \A e \in events' \ events :
        /\ \E p \in journal : Shows(p, c, e)
        /\ e.account = c.account /\ <<e.account, e.old>> \in ended
        /\ \A f \in events : f.account = e.account => Apart(f, e)
  <2> SUFFICES ASSUME NEW e \in events' \ events
               PROVE  /\ \E p \in journal : Shows(p, c, e)
                      /\ e.account = c.account /\ <<e.account, e.old>> \in ended
                      /\ \A f \in events : f.account = e.account => Apart(f, e)
    OBVIOUS
  <2>1. PICK p \in Previous(c) : c.account # Unknown /\ Confirmed(p, c) /\ e = Event(p, c)
    BY <1>3
  <2>2. /\ p \in journal /\ Shows(p, c, e)
        /\ <<c.account, p.ends>> \in ended
        /\ \A f \in events : f.account = c.account => Apart(f, e)
    BY <2>1, AddedEvent
  <2>3. e.account = c.account /\ e.old = p.ends  BY <2>2 DEF Shows
  <2> QED  BY <2>2, <2>3
<1>5. Evidence'
  <2>1. journal' \subseteq observed'  BY <1>1 DEF IInv, Evidence
  <2>2. \A e \in events' : \E p, d \in journal' : Shows(p, d, e)
    <3>1. \A e \in events : \E p, d \in journal' : Shows(p, d, e)  BY <1>1 DEF IInv, Evidence
    <3>2. \A e \in events' \ events : \E p, d \in journal' : Shows(p, d, e)  BY <1>1, <1>4
    <3> QED  BY <3>1, <3>2
  <2> QED  BY <2>1, <2>2 DEF Evidence, Shows
<1>6. EventsAreReal'
  <2>1. ended' = ended  BY <1>1 DEF provider
  <2> QED  BY <1>4, <2>1 DEF IInv, EventsAreReal
<1>7. AnnouncedOnce'
  <2> SUFFICES ASSUME NEW e \in events', NEW f \in events', e.account = f.account, e # f
               PROVE  Apart(e, f) \/ Apart(f, e)
    BY DEF AnnouncedOnce, Apart
  <2>1. CASE e \in events /\ f \in events  BY <2>1 DEF IInv, AnnouncedOnce
  <2>2. CASE e \notin events /\ f \notin events  BY <2>2, RecordAdds
  <2>3. CASE e \in events /\ f \notin events  BY <1>4, <2>3
  <2>4. CASE e \notin events /\ f \in events  BY <1>4, <2>4
  <2> QED  BY <2>1, <2>2, <2>3, <2>4
<1> QED  BY <1>2, <1>5, <1>6, <1>7 DEF IInv

------------------------------------------------------------------------------
(* The theorems. *)

LEMMA StepIInv == IInv /\ [Next]_vars => IInv'
<1> SUFFICES ASSUME IInv, [Next]_vars PROVE IInv'  OBVIOUS
<1>1. CASE Tick  BY <1>1, TickIInv
<1>2. ASSUME NEW a \in Account, NEW identity \in {a, Unknown}, Fetch(a, identity) PROVE IInv'
  BY <1>2, FetchIInv
<1>3. ASSUME NEW c \in observed, Record(c) PROVE IInv'  BY <1>3, RecordIInv
<1>4. CASE UNCHANGED vars
  BY <1>4 DEF vars, provider, database, IInv, Types, Typed, Answers, Sightings, Ordered, Precedes,
     Period, Evidence, Shows, EventsAreReal, AnnouncedOnce, Apart
<1> QED  BY <1>1, <1>2, <1>3, <1>4 DEF Next

\* The invariant from which the safety of the journal follows.
THEOREM InductiveInvariant == Spec => []IInv
<1> QED  BY InitIInv, StepIInv, PTL DEF Spec

\* Whatever lags, jumps, comes late or is unidentified, recordResetTransition
\* inserts no event for a period that is not over.
THEOREM OnlyRealResets == Spec => []EventsAreReal
<1>1. IInv => EventsAreReal  BY DEF IInv
<1> QED  BY <1>1, InductiveInvariant, PTL

\* However many processes record observations of a reset, and in whatever
\* order, one event announces it.
THEOREM ResetsAreAnnouncedOnce == Spec => []AnnouncedOnce
<1>1. IInv => AnnouncedOnce  BY DEF IInv
<1> QED  BY <1>1, InductiveInvariant, PTL

\* A set of observations that were made in the past has a latest one.
LEMMA LatestExists ==
  ASSUME NEW S, S # {}, NEW t \in Nat, \A x \in S : x.at \in Nat /\ x.at <= t
  PROVE  \E p \in S : \A q \in S : q.at <= p.at
<1> DEFINE Ages == {t - x.at : x \in S}
<1>1. Ages \subseteq Nat /\ Ages # {}  OBVIOUS
<1>2. IsWellFoundedOn(OpToRel(<, Nat), Nat)  BY NatLessThanWellFounded
<1>3. PICK m \in Ages : \A n \in Ages : <<n, m>> \notin OpToRel(<, Nat)
  <2> HIDE DEF Ages
  <2> QED  BY <1>1, <1>2, WFMin
<1>4. PICK p \in S : m = t - p.at  BY <1>3
<1>5. ASSUME NEW q \in S PROVE q.at <= p.at
  <2>1. t - q.at \in Ages /\ t - q.at \in Nat /\ m \in Nat  BY <1>1, <1>3
  <2>2. ~(t - q.at < m)  BY <1>3, <2>1 DEF OpToRel
  <2> QED  BY <1>4, <2>1, <2>2
<1> QED  BY <1>5

LEMMA RecordSees ==
  ASSUME IInv, NEW c \in observed, Record(c), c \notin journal, NEW p \in journal,
         p.account = c.account, c.account # Unknown,
         \A x \in journal : x.account = c.account => x.src = x.at,
         c.src = c.at, c.at >= p.ends,
         \A x \in journal : x.account = c.account => x.at < p.ends,
         \A x \in journal : x.account = c.account /\ x.ends = p.ends => x.left < c.left,
         now < c.ends, now - c.at <= FreshFor,
         now - p.ends <= RecentFor, now - p.at <= BaselineFor
  PROVE  \E e \in events' : SameId(e, Event(p, c))
<1> USE DetectionAssumption
<1>1. now \in Nat /\ Typed(c) /\ c.account \in Account /\ c.at <= now /\ c.src < c.ends
  BY DEF IInv, Types, Sightings, Typed
<1>2. \A x \in journal : x \in observed /\ Typed(x) /\ x.at <= now
  BY DEF IInv, Types, Sightings, Evidence
<1>3. Previous(c) # {}
  <2> DEFINE S == {x \in journal : x.account = c.account}
  <2>1. S # {} /\ \A x \in S : x.at \in Nat /\ x.at <= now  BY <1>2 DEF Typed
  <2>2. PICK q \in S : \A x \in S : x.at <= q.at
    <3> HIDE DEF S
    <3> QED  BY <1>1, <2>1, LatestExists
  <2> QED  BY <2>2 DEF Previous
<1>4. PICK q \in Previous(c) :
        LET new == IF Confirmed(q, c) THEN {Event(q, c)} ELSE {}
        IN events' = events \cup {e \in new : \A f \in events : ~SameId(e, f)}
  <2>1. PICK new \in Transitions(c) :
          events' = events \cup {e \in new : \A f \in events : ~SameId(e, f)}
    BY DEF Record
  <2>2. \E q \in Previous(c) : new = (IF Confirmed(q, c) THEN {Event(q, c)} ELSE {})
    BY <1>3, <2>1 DEF Transitions
  <2> QED  BY <2>1, <2>2
<1>5. q \in journal /\ q \in observed /\ q.account = c.account /\ p.at <= q.at
  BY <1>2, <1>4 DEF Previous
<1>6. Typed(p) /\ Typed(q) /\ p \in observed /\ q.src = q.at /\ p.src = p.at /\ q.at < p.ends
  BY <1>2, <1>5
<1>7. q.ends = p.ends
  <2>1. Precedes(p.src, p.ends, q.src, q.ends)  BY <1>1, <1>5, <1>6 DEF IInv, Ordered
  <2> QED  BY <1>5, <1>6, <2>1 DEF Precedes, Typed
<1>8. Confirmed(q, c)
  <2>1. q.left < c.left /\ q.left \in 0..Full /\ c.left \in 0..Full
    BY <1>1, <1>5, <1>6, <1>7 DEF Typed
  <2>2. c.at > q.at /\ now - q.at <= BaselineFor  BY <1>1, <1>5, <1>6 DEF Typed
  <2>3. c.ends > q.ends /\ c.src >= q.ends /\ c.src > q.src  BY <1>1, <1>6, <1>7 DEF Typed
  <2>4. q.left < Full /\ c.left > q.left  BY <2>1
  <2> QED  BY <1>1, <1>5, <1>6, <1>7, <2>2, <2>3, <2>4 DEF Confirmed, Typed
<1>9. Event(q, c) = Event(p, c)  BY <1>7 DEF Event
<1>10. events' = events \cup {e \in {Event(p, c)} : \A f \in events : ~SameId(e, f)}
  BY <1>4, <1>8, <1>9
<1>11. CASE \E f \in events : SameId(Event(p, c), f)
  <2> QED  BY <1>10, <1>11 DEF SameId
<1>12. CASE \A f \in events : ~SameId(Event(p, c), f)
  <2>1. Event(p, c) \in events'  BY <1>10, <1>12
  <2> QED  BY <2>1 DEF SameId
<1> QED  BY <1>11, <1>12

\* Where answers do not lag, the first observation recorded after a boundary
\* announces it.
THEOREM FirstSightAnnounces == Spec => FirstSight
<1>1. ASSUME IInv, [Next]_vars, NEW c \in journal' \ journal, NEW p \in journal
      PROVE  c \in observed /\ Record(c)
  <2>1. CASE Tick  BY <1>1, <2>1 DEF Tick, database
  <2>2. ASSUME NEW a \in Account, NEW identity \in {a, Unknown}, Fetch(a, identity) PROVE FALSE
    BY <1>1, <2>2 DEF Fetch, database
  <2>3. ASSUME NEW d \in observed, Record(d) PROVE d = c  BY <1>1, <2>3 DEF Record
  <2>4. CASE UNCHANGED vars  BY <1>1, <2>4 DEF vars, database
  <2> QED  BY <1>1, <2>1, <2>2, <2>3, <2>4 DEF Next
<1> DEFINE Others(c) == {x \in journal : x.account = c.account}
           Seen(c, p) ==
             /\ p \in Others(c) /\ c.account # Unknown
             /\ \A x \in Others(c) \cup {c} : x.src = x.at
             /\ c.at >= p.ends /\ \A x \in Others(c) : x.at < p.ends
             /\ \A x \in Others(c) : x.ends = p.ends => x.left < c.left
             /\ now < c.ends /\ now - c.at <= FreshFor
             /\ now - p.ends <= RecentFor /\ now - p.at <= BaselineFor
<1>2. ASSUME IInv, [Next]_vars, NEW c \in journal' \ journal, NEW p \in journal, Seen(c, p)
      PROVE  \E e \in events' : SameId(e, Event(p, c))
  <2>1. c \in observed /\ Record(c)  BY <1>1, <1>2
  <2> QED  BY <1>2, <2>1, RecordSees
<1>3. IInv /\ [Next]_vars =>
        [\A c \in journal' \ journal, p \in journal :
           LET others == {x \in journal : x.account = c.account}
           IN /\ p \in others /\ c.account # Unknown
              /\ \A x \in others \cup {c} : x.src = x.at
              /\ c.at >= p.ends /\ \A x \in others : x.at < p.ends
              /\ \A x \in others : x.ends = p.ends => x.left < c.left
              /\ now < c.ends /\ now - c.at <= FreshFor
              /\ now - p.ends <= RecentFor /\ now - p.at <= BaselineFor
              => \E e \in events' : SameId(e, Event(p, c))]_vars
  BY <1>2
<1> QED  BY <1>3, InductiveInvariant, PTL DEF Spec, FirstSight

------------------------------------------------------------------------------
(* The snapshots.  Ids tell observations apart, so the snapshot of an      *)
(* observation, once there, is never another's; and the latest of finitely *)
(* many snapshots exists because each has a key of its own that can be     *)
(* compared.                                                               *)

\* The snapshot s is of the observation c.
SnapshotOf(s, c) == s.id = c.id /\ s.account = c.account /\ s.at = c.at

\* Observations are numbered as they are made.
Numbered ==
  /\ IsFiniteSet(observed)
  /\ \A c \in observed : c.id \in 1..Cardinality(observed)
  /\ \A c, d \in observed : c.id = d.id => c = d

\* Snapshots are of observations, and every recorded one has its snapshot.
Copied ==
  /\ IsFiniteSet(snapshots)
  /\ \A s \in snapshots : /\ s.key \in Nat
                           /\ \E c \in observed : SnapshotOf(s, c)
  /\ \A s, r \in snapshots : s.key = r.key => s = r
  /\ \A c \in journal : \E s \in snapshots : SnapshotOf(s, c)

SnapshotIInv == Numbered /\ Copied

\* s is shown rather than r.
Newer(r, s) == r.at < s.at \/ (r.at = s.at /\ r.key <= s.key)

\* A nonempty finite set of snapshots has a newest one: one with the fewest
\* that are not older than it.
LEMMA NewestExists ==
  ASSUME NEW S, IsFiniteSet(S), S # {},
         \A s \in S : s.at \in Nat /\ s.key \in Nat
  PROVE  \E s \in S : \A r \in S : Newer(r, s)
<1> DEFINE Later(s) == {r \in S : ~Newer(r, s)}
           Ranks == {Cardinality(Later(s)) : s \in S}
<1>1. \A s \in S : IsFiniteSet(Later(s)) /\ Cardinality(Later(s)) \in Nat
  BY FS_Subset, FS_CardinalityType
<1>2. Ranks \subseteq Nat /\ Ranks # {}  BY <1>1
<1>3. PICK m \in Ranks : \A n \in Ranks : <<n, m>> \notin OpToRel(<, Nat)
  <2> HIDE DEF Ranks
  <2>1. IsWellFoundedOn(OpToRel(<, Nat), Nat)  BY NatLessThanWellFounded
  <2> QED  BY <1>2, <2>1, WFMin
<1>4. PICK s \in S : m = Cardinality(Later(s))  BY <1>3
<1>5. ASSUME NEW r \in S, ~Newer(r, s) PROVE FALSE
  <2>1. r \in Later(s) /\ r \notin Later(r)  BY <1>5 DEF Newer
  <2>2. Later(r) \subseteq Later(s)
    <3> SUFFICES ASSUME NEW x \in S, ~Newer(x, r) PROVE ~Newer(x, s)  OBVIOUS
    <3> QED  BY <1>5 DEF Newer
  <2>3. Cardinality(Later(r)) <= Cardinality(Later(s))
        /\ Cardinality(Later(r)) # Cardinality(Later(s))
    <3> HIDE DEF Later
    <3> QED  BY <1>1, <2>1, <2>2, FS_Subset
  <2>4. Cardinality(Later(r)) \in Ranks  OBVIOUS
  <2> HIDE DEF Ranks, Later
  <2>5. Cardinality(Later(r)) \in Nat /\ m \in Nat /\ Cardinality(Later(r)) < m
    BY <1>1, <1>4, <2>3
  <2> QED  BY <1>3, <2>4, <2>5 DEF OpToRel
<1> QED  BY <1>5

\* The search for a free millisecond ends: one of one more milliseconds than
\* there are snapshots is free.
LEMMA FirstFreeIsFree ==
  ASSUME IsFiniteSet(snapshots), NEW t \in Nat
  PROVE  FirstFree(t) \in Nat /\ \A s \in snapshots : s.key # FirstFree(t)
<1> DEFINE N == Cardinality(snapshots)
           Free == {n \in t .. t + N : \A s \in snapshots : s.key # n}
<1>1. N \in Nat  BY FS_CardinalityType
<1>2. Free # {}
  <2> SUFFICES ASSUME \A n \in t .. t + N : \E s \in snapshots : s.key = n PROVE FALSE
    OBVIOUS
  <2> DEFINE g == [n \in t .. t + N |-> CHOOSE s \in snapshots : s.key = n]
  <2>1. \A n \in t .. t + N : g[n] \in snapshots /\ g[n].key = n  OBVIOUS
  <2>2. g \in [t .. t + N -> snapshots]  BY <2>1
  <2> HIDE DEF g
  <2>3. \A m, n \in t .. t + N : g[m] = g[n] => m = n  BY <2>1
  <2>4. g \in Injection(t .. t + N, snapshots)  BY <2>2, <2>3 DEF Injection, IsInjective
  <2>5. Cardinality(t .. t + N) <= N  BY <2>4, FS_Injection
  <2>6. Cardinality(t .. t + N) = N + 1  BY <1>1, FS_Interval
  <2> QED  BY <1>1, <2>5, <2>6
<1>3. Free \subseteq Nat  BY <1>1
<1>4. PICK f \in Free : \A n \in Free : <<n, f>> \notin OpToRel(<, Nat)
  <2> HIDE DEF Free
  <2>1. IsWellFoundedOn(OpToRel(<, Nat), Nat)  BY NatLessThanWellFounded
  <2> QED  BY <1>2, <1>3, <2>1, WFMin
<1>5. \A m \in t .. f - 1 : \E s \in snapshots : s.key = m
  <2> SUFFICES ASSUME NEW m \in t .. f - 1, \A s \in snapshots : s.key # m PROVE FALSE
    OBVIOUS
  <2>1. f \in t .. t + N  BY <1>4
  <2> HIDE DEF N
  <2>2. m \in t .. t + N /\ m \in Nat /\ m < f
    <3>1. f \in Int /\ t <= f /\ f <= t + N  BY <1>1, <2>1
    <3>2. m \in Int /\ t <= m /\ m <= f - 1  BY <3>1
    <3> QED  BY <1>1, <3>1, <3>2
  <2>3. m \in Free  BY <2>2
  <2> HIDE DEF Free
  <2> QED  BY <1>3, <1>4, <2>2, <2>3 DEF OpToRel
<1>6. /\ FirstFree(t) \in t .. t + N
      /\ \A s \in snapshots : s.key # FirstFree(t)
  BY <1>4, <1>5 DEF FirstFree
<1> QED  BY <1>1, <1>6

LEMMA FetchNumbers ==
  ASSUME SnapshotIInv, NEW a \in Account, NEW identity \in {a, Unknown}, Fetch(a, identity)
  PROVE  SnapshotIInv'
<1> DEFINE N == Cardinality(observed)
<1>0. PICK reply \in {answer[a], Live(a)} : observed' = observed \cup
        {[id |-> N + 1, account |-> identity, at |-> now,
          src |-> reply.src, ends |-> reply.ends, left |-> reply.left]}
  BY DEF Fetch
<1> DEFINE new == [id |-> N + 1, account |-> identity, at |-> now,
                   src |-> reply.src, ends |-> reply.ends, left |-> reply.left]
<1>1. observed' = observed \cup {new} /\ new.id = N + 1  BY <1>0
<1> HIDE DEF new
<1>2. UNCHANGED database  BY DEF Fetch
<1>3. IsFiniteSet(observed) /\ N \in Nat  BY FS_CardinalityType DEF SnapshotIInv, Numbered
<1>4. \A c \in observed : c.id \in 1..N  BY DEF SnapshotIInv, Numbered
<1>5. new \notin observed  BY <1>1, <1>3, <1>4
<1>6. IsFiniteSet(observed') /\ Cardinality(observed') = N + 1
  BY <1>1, <1>3, <1>5, FS_AddElement
<1> HIDE DEF N
<1>7. Numbered'
  <2>1. \A c \in observed' : c.id \in 1..N + 1  BY <1>1, <1>3, <1>4
  <2>2. \A c, d \in observed' : c.id = d.id => c = d
    BY <1>1, <1>3, <1>4 DEF SnapshotIInv, Numbered
  <2> QED  BY <1>6, <2>1, <2>2 DEF Numbered
<1>8. Copied'  BY <1>1, <1>2 DEF SnapshotIInv, Copied, SnapshotOf, database
<1> QED  BY <1>7, <1>8 DEF SnapshotIInv

LEMMA RecordCopies ==
  ASSUME IInv, SnapshotIInv, NEW c \in observed, Record(c)
  PROVE  SnapshotIInv'
<1> DEFINE new == [id |-> c.id, account |-> c.account, at |-> c.at, key |-> FirstFree(c.at)]
<1>1. UNCHANGED observed /\ journal' = journal \cup {c}  BY DEF Record
<1>2. Numbered'  BY <1>1 DEF SnapshotIInv, Numbered
<1>3. \A d \in journal : \E s \in snapshots : SnapshotOf(s, d)  BY DEF SnapshotIInv, Copied
<1>4. CASE \E s \in snapshots : s.id = c.id
  <2>1. snapshots' = snapshots  BY <1>4 DEF Record
  <2>2. PICK s \in snapshots : s.id = c.id  BY <1>4
  <2>3. PICK d \in observed : SnapshotOf(s, d)  BY DEF SnapshotIInv, Copied
  <2>4. d = c  BY <2>2, <2>3 DEF SnapshotIInv, Numbered, SnapshotOf
  <2> QED  BY <1>1, <1>2, <2>1, <2>3, <2>4 DEF SnapshotIInv, Copied, SnapshotOf
<1>5. CASE ~\E s \in snapshots : s.id = c.id
  <2>1. snapshots' = snapshots \cup {new}  BY <1>5 DEF Record
  <2>2. c.at \in Nat  BY DEF IInv, Types, Typed
  <2>3. new.key \in Nat /\ \A s \in snapshots : s.key # new.key
    BY <2>2, FirstFreeIsFree DEF SnapshotIInv, Copied
  <2>4. SnapshotOf(new, c)  BY DEF SnapshotOf
  <2> HIDE DEF new
  <2>5. IsFiniteSet(snapshots')  BY <2>1, FS_AddElement DEF SnapshotIInv, Copied
  <2>6. \A s, r \in snapshots' : s.key = r.key => s = r
    BY <2>1, <2>3 DEF SnapshotIInv, Copied
  <2>7. \A s \in snapshots' : s.key \in Nat /\ \E d \in observed' : SnapshotOf(s, d)
    BY <1>1, <2>1, <2>3, <2>4 DEF SnapshotIInv, Copied
  <2>8. \A d \in journal' : \E s \in snapshots' : SnapshotOf(s, d)
    BY <1>1, <1>3, <2>1, <2>4
  <2>9. Copied'  BY <2>5, <2>6, <2>7, <2>8 DEF Copied, SnapshotOf
  <2> QED  BY <1>2, <2>9 DEF SnapshotIInv
<1> QED  BY <1>4, <1>5

LEMMA StepSnapshots == IInv /\ SnapshotIInv /\ [Next]_vars => SnapshotIInv'
<1> SUFFICES ASSUME IInv, SnapshotIInv, [Next]_vars PROVE SnapshotIInv'  OBVIOUS
<1>1. CASE Tick
  BY <1>1 DEF Tick, SnapshotIInv, Numbered, Copied, SnapshotOf, database
<1>2. ASSUME NEW a \in Account, NEW identity \in {a, Unknown}, Fetch(a, identity)
      PROVE  SnapshotIInv'
  BY <1>2, FetchNumbers
<1>3. ASSUME NEW c \in observed, Record(c) PROVE SnapshotIInv'  BY <1>3, RecordCopies
<1>4. CASE UNCHANGED vars
  BY <1>4 DEF vars, SnapshotIInv, Numbered, Copied, SnapshotOf, database
<1> QED  BY <1>1, <1>2, <1>3, <1>4 DEF Next

\* In whatever order observations of an account are recorded, and however many
\* share a millisecond, getCurrentQuota finds one, and none is newer.
THEOREM CurrentIsNewest == Spec => []NewestIsShown
<1>1. Init => SnapshotIInv
  <2>1. Init => Cardinality(observed) = 0 /\ IsFiniteSet(observed) /\ IsFiniteSet(snapshots)
    BY FS_EmptySet DEF Init
  <2> QED  BY <2>1 DEF Init, SnapshotIInv, Numbered, Copied
<1>2. IInv /\ SnapshotIInv => NewestIsShown
  <2> SUFFICES ASSUME IInv, SnapshotIInv, NEW c \in journal
               PROVE  \E s \in CurrentQuota(c.account) : s.at >= c.at
    BY DEF NewestIsShown
  <2> DEFINE S == {s \in snapshots : s.account = c.account}
  <2>1. PICK own \in snapshots : SnapshotOf(own, c)  BY DEF SnapshotIInv, Copied
  <2>2. IsFiniteSet(S) /\ own \in S
    <3>1. S \in SUBSET snapshots  OBVIOUS
    <3> HIDE DEF S
    <3>2. IsFiniteSet(S)  BY <3>1, FS_Subset DEF SnapshotIInv, Copied
    <3> QED  BY <2>1, <3>2 DEF SnapshotOf, S
  <2>3. \A s \in S : s.at \in Nat /\ s.key \in Nat
    BY DEF SnapshotIInv, Copied, SnapshotOf, IInv, Types, Typed
  <2>4. PICK s \in S : \A r \in S : Newer(r, s)
    <3> HIDE DEF S
    <3> QED  BY <2>2, <2>3, NewestExists
  <2>5. s \in CurrentQuota(c.account)  BY <2>4 DEF CurrentQuota, Newer
  <2>6. s.at >= own.at  BY <2>2, <2>3, <2>4 DEF Newer
  <2> QED  BY <2>1, <2>5, <2>6 DEF SnapshotOf
<1> QED  BY <1>1, <1>2, StepSnapshots, InductiveInvariant, PTL DEF Spec
==============================================================================
