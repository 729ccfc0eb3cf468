------------------------------ MODULE Resource ------------------------------
(***************************************************************************)
(* Resource (resource/resource.cpp) creates the two pools: DataSource and  *)
(* RedisDataSource (include/datasource/) read their parameters from the    *)
(* configuration, RedisPool::Init and DBPool::PoolInit (db/dbpool.cpp)     *)
(* start them.  Resource looks at the result of neither.                   *)
(***************************************************************************)
EXTENDS Config

CONSTANTS Word,   \* the first word of each text, all that >> string reads of it
          Wild,   \* values an uninitialised port_ may have
          Unsafe, \* words that a URL does not take as they are: with an "&", a
                  \* "%" or the like, or so long that snprintf cuts the URL
          NoPool

\* What DataSource reads, in this order: words, numbers, and numbers that keep
\* their default without a text.
Words == {"ip", "db", "user", "pass"}
Sizes == {"initialSize", "maxSize", "reapSec"}

ASSUME ResourceAssumption ==
  /\ {"redis", "mysql"} \subseteq Sections
  /\ Words \cup Sizes \cup {"port", "timeout"} \subseteq Keys
  /\ Number \in [DOMAIN Number -> Int] /\ GarbledNumbers \subseteq Int
  /\ Word[Empty] = Empty

VARIABLES resource,  \* "idle", "redis" in Resource::init after the first pool,
                     \* "set"
          redisPool, \* what RedisPool keeps of the source, and its idle
                     \* connections
          dbPool     \* what DBPool gave libzdb, and what became of it

resourceVars == <<resource, redisPool, dbPool>>

ResourceInit == resource = "idle" /\ redisPool = NoPool /\ dbPool = NoPool
-----------------------------------------------------------------------------
\* The stringstream of DataSource::DataSource holds the text not yet read, and
\* whether no read failed or met the end.

\* Mutant of Reset: clear() is missing.
ResetText(ss) == [left |-> Empty, good |-> ss.good]

\* clear() and str("") before each field.
Reset(ss) == [left |-> Empty, good |-> TRUE]

\* ss << text, after what is left of an earlier one.
Into(ss, text) ==
  IF ~ss.good \/ text = Empty THEN ss
  ELSE [left |-> IF ss.left = Empty THEN text ELSE Garbled, good |-> TRUE]

\* ss >> x for an x of value old, when the text read gives one of values.  It
\* may stop before the end, or at what is no number.
Extract(ss, old, values) ==
  IF ss.good /\ ss.left # Empty
  THEN {[x |-> v, ss |-> s] :
          v \in values,
          s \in {t \in [left : {Empty, Garbled}, good : BOOLEAN] : t.good => t.left # Empty}}
  ELSE {[x |-> old, ss |-> [left |-> ss.left, good |-> FALSE]]}

Values(k, text) == IF k \in Words THEN {Word[text]} ELSE Numbers(text)

\* Field k of the sources r.src, all read so far by the stream r.ss.
Field(item, k, r) ==
  LET ss == Into(Reset(r.ss), get(item, k))
  IN  IF k \in Sizes /\ ss.left = Empty THEN {[src |-> r.src, ss |-> ss]}
      ELSE {[src |-> [r.src EXCEPT ![k] = e.x], ss |-> e.ss] :
              e \in Extract(ss, r.src[k], Values(k, ss.left))}

Read(item, k, R) == UNION {Field(item, k, r) : r \in R}

\* DataSource before its first field; port_ is not initialised.
Blank ==
  {[src |-> [ip |-> Empty, port |-> p, db |-> Empty, user |-> Empty, pass |-> Empty,
             initialSize |-> 0, maxSize |-> 10, reapSec |-> 60],
    ss  |-> [left |-> Empty, good |-> TRUE]] : p \in Wild}

\* DataSource::DataSource: the sources it may build from section item.
DataSources(item) ==
  LET ip      == Read(item, "ip", Blank)
      port    == Read(item, "port", ip)
      db      == Read(item, "db", port)
      user    == Read(item, "user", db)
      pass    == Read(item, "pass", user)
      initial == Read(item, "initialSize", pass)
      maximum == Read(item, "maxSize", initial)
      reap    == Read(item, "reapSec", maximum)
  IN  {r.src : r \in reap}

\* RedisDataSource::RedisDataSource, after DataSource.
Timeouts(item) == NumberOr({100000}, get(item, "timeout"))

\* RedisPool::RedisPool and RedisPool::Init: no size is checked, and the first
\* connection that cannot be opened ends Init.
RedisInit(item) ==
  \E src \in DataSources(item), t \in Timeouts(item) :
    \E n \in 0 .. Max({0, src.initialSize}) :
      redisPool' = [source |-> src, timeout |-> t, tag |-> item, idle |-> n]

\* The URL of DBPool::PoolInit, without escapes and with at most 126 bytes, as
\* libzdb understands it.
Urls(src) ==
  {"as meant"} \cup IF \E k \in Words : src[k] \in Unsafe THEN {"otherwise"} ELSE {}

\* How DBPool::PoolInit ends: without a pool (-1 and -2); "refused", by a
\* return out of TRY that leaves the frame of the exception handler behind
\* (-3); with a pool that was not started because libzdb threw (-4), or was.
Outcomes(src) ==
  {"null"} \cup IF 0 <= src.initialSize /\ src.initialSize <= src.maxSize
                THEN {"stopped", "started"} ELSE {"refused"}

PoolInit(item) ==
  \E src \in DataSources(item) :
    \E url \in Urls(src), state \in Outcomes(src) :
      dbPool' = [source |-> src, url |-> url, tag |-> item, state |-> state,
                 reaper |-> IF state \in {"stopped", "started"}
                            THEN Max({0, src.reapSec}) ELSE 0]

\* Resource::init, the Redis pool before the database pool.
InitRedis ==
  /\ resource = "idle"
  /\ RedisInit("redis")
  /\ resource' = "redis"
  /\ UNCHANGED dbPool

InitDb ==
  /\ resource = "redis"
  /\ PoolInit("mysql")
  /\ resource' = "set"
  /\ UNCHANGED redisPool

\* Resource::Resource(config, tag, type); INVALID makes no pool.
Construct ==
  /\ resource = "idle"
  /\ \E tag \in Sections :
       \/ RedisInit(tag) /\ UNCHANGED dbPool
       \/ PoolInit(tag) /\ UNCHANGED redisPool
       \/ UNCHANGED <<redisPool, dbPool>>
  /\ resource' = "set"

SetUp == InitRedis \/ InitDb \/ Construct
-----------------------------------------------------------------------------
\* Each variable keeps to its type.
ResourceTypeOK ==
  /\ resource \in {"idle", "redis", "set"}
  /\ redisPool # NoPool => redisPool.tag \in Sections /\ redisPool.idle >= 0
  /\ dbPool # NoPool => dbPool.tag \in Sections

\* A source is what the file says of its section, field by field: one stream
\* reads them all, and no field may get what is left of another one.
SourceAsDeclared(src, tag) ==
  LET Says(k) == Declared(tag, k)
      Size(k, d) == IF Says(k) = Empty THEN d ELSE Number[Says(k)]
  IN  /\ \A k \in Words : src[k] = Word[Says(k)]
      /\ Says("port") # Empty => src.port = Number[Says("port")]
      /\ src.initialSize = Size("initialSize", 0)
      /\ src.maxSize = Size("maxSize", 10)
      /\ src.reapSec = Size("reapSec", 60)

\* The Redis pool has at most the connections that the file says, and the
\* declared timeout, or 100000 without one.
RedisAsDeclared(p) ==
  LET t == Declared(p.tag, "timeout")
      n == Declared(p.tag, "initialSize")
  IN  /\ SourceAsDeclared(p.source, p.tag)
      /\ p.timeout = IF t = Empty THEN 100000 ELSE Number[t]
      /\ p.idle > 0 => n # Empty /\ p.idle <= Number[n]

\* The database pool is refused only when the declared sizes make no sense, and
\* set up only when they do; libzdb may see other parameters only if a declared
\* word is unsafe in a URL; the reaper runs at the declared interval, unless that
\* is not positive.
DbAsDeclared(p) ==
  LET Size(k, d) == IF Declared(p.tag, k) = Empty THEN d ELSE Number[Declared(p.tag, k)]
      sensible == Size("initialSize", 0) \in 0 .. Size("maxSize", 10)
  IN  /\ SourceAsDeclared(p.source, p.tag)
      /\ p.url # "as meant" => \E k \in Words : Word[Declared(p.tag, k)] \in Unsafe
      /\ p.state = "refused" => ~sensible
      /\ p.state \in {"stopped", "started"} =>
           /\ sensible
           /\ p.reaper = Max({0, Size("reapSec", 60)})

\* The pools are set up as the file says of their sections, whichever keys are
\* missing, repeated or no numbers.
PoolsAsDeclared ==
  /\ ResourceTypeOK
  /\ ~Runs =>
       /\ redisPool # NoPool => RedisAsDeclared(redisPool)
       /\ dbPool # NoPool => DbAsDeclared(dbPool)
=============================================================================
