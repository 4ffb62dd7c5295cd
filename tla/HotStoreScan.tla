---------------------------- MODULE HotStoreScan ----------------------------
(***************************************************************************)
(* A client that pages through the readings of one sensor in a time range, *)
(* GET /sensors/{id}/data/range with limit and offset, while the ingestion *)
(* service stores and evicts readings between its pages.  Each page is one *)
(* ZREVRANGEBYSCORE.  The client is outside the repository: it asks for    *)
(* the next offset until a page is not full.  Another one lists sensors    *)
(* and asks for the latest readings of this sensor or that.                *)
(***************************************************************************)
EXTENDS HotStore

CONSTANTS
    Sensor,   \* the sensor the client asks for
    From, To, \* start and end
    Limit,    \* limit
    MemberRank \* order of the payloads of readings with the same timestamp

ASSUME HotStoreScanAssumption ==
    /\ Sensor \in Sensors
    /\ From \in Nat /\ To \in Nat
    /\ Limit \in Nat \ {0}
    /\ MemberRank \in [Bodies -> Nat]
    /\ \A a, b \in Bodies : MemberRank[a] = MemberRank[b] => a = b
    /\ IsFiniteSet(Readings)

VARIABLES
    paging,     \* whether the client is at it
    offset,     \* of the next page
    seen,       \* readings of the pages so far
    throughout, \* history: readings of the range, there since the first page
    newest      \* per sensor: newest timestamp answered, 0 once it was listed

pageVars == <<paging, offset, seen, throughout>>
scanVars == <<hotVars, pageVars, newest>>

-----------------------------------------------------------------------------
InRange == {r \in hot : r.sensor = Sensor /\ From <= r.ts /\ r.ts <= To}

\* ZRANGEBYSCORE: the oldest first.
WrongBefore(x, y) ==
    x.ts < y.ts \/ (x.ts = y.ts /\ MemberRank[x.body] < MemberRank[y.body])

\* The newest first; Redis orders members of one score by their bytes.
Before(x, y) ==
    x.ts > y.ts \/ (x.ts = y.ts /\ MemberRank[x.body] > MemberRank[y.body])

Rank(r) == Cardinality({x \in InRange : Before(x, r)})

\* get_readings_in_range
Page(start) == {r \in InRange : start <= Rank(r) /\ Rank(r) < start + Limit}

\* The sensor was neither listed nor found.
Unheard == -1

Of(s) == {r \in hot : r.sensor = s}

ScanInit ==
    /\ HotInit
    /\ paging = FALSE /\ offset = 0 /\ seen = {} /\ throughout = {}
    /\ newest = [s \in Sensors |-> Unheard]

\* The client sets out on a new scan.
Begin ==
    /\ ~paging
    /\ paging' = TRUE /\ offset' = 0 /\ seen' = {}
    /\ throughout' = InRange
    /\ UNCHANGED <<hotVars, newest>>

\* The client does not notice that a page is short.
WrongGetPage ==
    /\ paging
    /\ seen' = seen \union Page(offset)
    /\ offset' = offset + Limit
    /\ UNCHANGED <<hotVars, paging, throughout, newest>>

GetPage ==
    /\ paging
    /\ seen' = seen \union Page(offset)
    /\ offset' = offset + Limit
    /\ paging' = (Cardinality(Page(offset)) = Limit)
    /\ UNCHANGED <<hotVars, throughout, newest>>

\* Readings are stored and evicted between two pages.
StoreMeanwhile ==
    /\ \E r \in Readings : StoreReading(r)
    /\ throughout' = IF paging THEN throughout \intersect hot' ELSE throughout
    /\ UNCHANGED <<paging, offset, seen, newest>>

\* list_sensors: a page of SSCAN holds some of the sensors.
ListSensors ==
    /\ \E S \in SUBSET sensors :
          newest' = [s \in Sensors |->
                        IF s \in S /\ newest[s] = Unheard THEN 0 ELSE newest[s]]
    /\ UNCHANGED <<hotVars, pageVars>>

\* get_latest_readings, of whose answer the first reading counts here.
GetLatest(s) ==
    /\ \E r \in Of(s) :
          /\ \A x \in Of(s) : ~Before(x, r)
          /\ newest' = [newest EXCEPT ![s] = r.ts]
    /\ UNCHANGED <<hotVars, pageVars>>

\* Without a reading the answer is 404.
FindNoReading(s) ==
    /\ Of(s) = {}
    /\ newest' = [newest EXCEPT ![s] = Unheard]
    /\ UNCHANGED <<hotVars, pageVars>>

ScanNext ==
    \/ Begin \/ GetPage \/ StoreMeanwhile
    \/ ListSensors
    \/ \E s \in Sensors : GetLatest(s) \/ FindNoReading(s)

ScanSpec == ScanInit /\ [][ScanNext]_scanVars

-----------------------------------------------------------------------------
ScanTypeOK ==
    /\ HotTypeOK
    /\ paging \in BOOLEAN
    /\ offset \in 0..(Cardinality(Readings) + Limit)
    /\ seen \subseteq stored /\ throughout \subseteq stored
    /\ newest \in [Sensors -> Nat \union {Unheard}]

(***************************************************************************)
(* A scan that has come to its end has seen every reading of the range     *)
(* that was there from its first page to its last, although the offsets    *)
(* shift as newer readings arrive and older ones are evicted: what is      *)
(* evicted always comes after what stays, so a reading never moves to an   *)
(* offset the client has passed.  (It may see one twice.)                  *)
(***************************************************************************)
ScanMissesNothing == ~paging => throughout \subseteq seen

(***************************************************************************)
(* Once the service has listed a sensor or answered its latest readings,   *)
(* it does not answer 404 for the sensor, nor readings that end before     *)
(* those of an earlier answer, although late readings arrive, what was     *)
(* answered is evicted, and the set of sensors is not trimmed with the     *)
(* sorted sets.                                                            *)
(***************************************************************************)
LatestNeverRecedes == [][\A s \in Sensors : newest'[s] >= newest[s]]_scanVars
=============================================================================
