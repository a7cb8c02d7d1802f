# TLA+ models of ome-kafka-bridge

`ome-kafka-bridge` pretends to be a Kafka broker for Dell OpenManage Enterprise
(OME), parses the records OME produces, and forwards metrics to a Prometheus
`remote_write` endpoint and log entries to Loki. This directory holds TLA+
models of its components, the TLC runs that check them on small instances and
the TLAPS proofs of what holds for every instance.

`PROJECT.json` lists the components, the runs, the source lines each definition
models, the hazards the properties are aimed at, the findings and the theorems.

## The system

| Component | State | Operations | Talks to |
|---|---|---|---|
| Broker (`internal/broker`) | listener, `done`, `topicSet` under an RWMutex, `msgCh` (capacity 4096); per connection a handler goroutine | accept, read a request, Metadata (creates topics), Produce (decodes records, sends them on `msgCh` without blocking), fixed answers, `Close` | OME over TCP; the pipeline through `msgCh` |
| Pipeline (`main.go`) | none of its own | receive from `msgCh`, `Parse`, route by topic, `Submit` | both forwarders, synchronously: it stays in a flush for the length of a request |
| Forwarders (`internal/forwarder`) | `pending` under a mutex, a ticker, `done` | `Submit`, `flush`, `flushLoop`, `Close` | backends over HTTP |
| Disk cache (`internal/cache`) | a directory of JSON files, a mutex, a ticker, `done`, two callbacks | `StoreMetrics`, `StoreLogs` (with eviction), `replayAll`, `Stats`, `Close` | the forwarders' `Submit`, through the callbacks |
| Parser, relabeller, Loki writer, remote_write encoder, configuration | none | pure conversions | called by the above |
| Shutdown (`main.go`) | signal channel, context | cancel, then close broker, forwarders, cache, HTTP server | everything; waits for no goroutine |

What is hard about it:

* *Concurrency.* Up to three goroutines are inside a forwarder's `flush` at a
  time; the cache's retry loop reads and deletes files without the mutex its
  writers hold; connection handlers share the topic set and the channel.
* *Failure.* A request can time out and be stored nevertheless; a process can
  end in the middle of a file; a record channel fills up while the pipeline
  waits for a backend.
* *Ordering.* Kafka clients match answers to requests by order; the cache's
  order is that of file names; records of a producer should stay in order.
* *Liveness.* Partly filled buffers wait for a ticker, spooled entries for a
  retry pass that may be cut short, handlers for a deadline.

Correctness, component by component: the broker answers each request once and
in order, and hands each record to the pipeline once and in order or drops it;
a forwarder neither loses, duplicates nor holds back what `Submit` accepted
while it flushes; the cache keeps what it accepted until it has been replayed
or given up for a stated reason, and stays within its size; the pipeline counts
each message once and submits it to the forwarders its topic is listed for, and
a signal ends the process; the conversions keep what they convert: readings
keep their labels, streams their lines, requests their bytes.

## Modules

| Module | Models |
|---|---|
| `Forwarder` | `MetricsForwarder` and `LogForwarder` |
| `Delivery` | what a forwarder promises: at-most-once delivery, without buffers and goroutines |
| `DiskCache` | `Cache`, with crash and restart |
| `Spool` | `DiskCache` with an instance of `Forwarder` behind the callbacks, as `main` wires them |
| `Broker` | `Broker`: accept loop, connection handlers, topic set, channel |
| `Decoder` | `handleProduce`'s decoding and the `reader`, byte by byte |
| `Routing` | configuration defaults and validation, topic kinds, topic filters (constant definitions) |
| `Startup` | from the configuration file to the running, routing process |
| `Bridge` | channel, pipeline, two instances of `Forwarder`, backends, shutdown |
| `Parser` | `Parse` for every kind of message |
| `Relabel` | `New` and `Apply`, and what Prometheus, which is external, does with the same rules |
| `LokiWriter` | `Push` up to the request body |
| `RemoteWrite` | `WriteRequest.Marshal`, and a decoder of the message format |
| `Conversions` | the six sequential parts together, their inputs as parameters; a behaviour is one run of one part |
| `ForwarderProofs` | theorems about `Forwarder`, and that it implements `Delivery` |
| `BrokerProofs`, `DiskCacheProofs` | theorems about `Broker` and `DiskCache` |
| `SpoolProofs`, `BridgeProofs` | theorems about the two compositions; `OriginLemmas` has the facts about histories that both use |
| `ConversionProofs` | theorems about `Parser`, `Relabel`, `Startup`, `Routing` and `Decoder` for every input |
| `WireProofs` | theorems about `LokiWriter` and `RemoteWrite` for every input |
| `*Inputs` | the inputs the conversions are run on |
| `MC*` | the instances TLC checks |

Compositions: `Spool` extends `DiskCache` and instantiates `Forwarder`; `Bridge`
extends `Routing` and instantiates `Forwarder` twice; `Conversions`
instantiates the six sequential modules.

Operators whose names have a suffix after an underscore (`FlushDue_OffByOne`,
`ListUnder_NoLock`, ...) are mutants: the form a plausible mistake in the code
would give to the definition that follows. They occur in no specification;
`PROJECT.json` names the property each of them breaks.

### Forwarder

`pending`, `done` and the ticker's channel (`tick`) are the fields of the struct;
`pc` and `batch` are the program counter and the local `batch` of each goroutine
that can be in `flush`. A critical section is a step: `Submit` up to the unlock,
then `TakeBatch`, which is the critical section of `flush`; relabelling,
encoding and the start of the request are `EncodeAndSend` (or `EncodeFail`), and
the request ends in `SendOk` or `SendFail`. The backend is external: it handles
a request that is on the `wire` at any time, also after the client has given up
on it. `relabelled`, `acked` and `failed` record how a sample left `flush`.
Which samples a relabel rule drops is a free choice. The log forwarder is the
same structure with `MaxSubmit = 1` and `EncodingMayFail = FALSE`: the theorems
hold for all values of the constants, and `Bridge` runs it as such.

`Delivery` is the contract without the mechanism. The mapping (`Promise` in
`Forwarder`) takes the buffer and the batches not yet encoded together as what
is kept, the wire as the requests and `acked` as what is confirmed. `Submit` is
`Accept`, the encoding step `Dispatch`, the backend's step `Handle`, a 2xx answer
`Confirm`; everything else, the swap of the buffer, the ticker and `Close`
included, is invisible.

### DiskCache

`disk` maps the names in the directory to files; a file is `whole` or the part
that a running, failed or interrupted `os.WriteFile` has left. The holder of
`c.mu` goes through `Lock`, one `Scan` per `os.Stat` of the sum, one `Evict` per
turn of the deleting loop, then `Create` and `WriteOk`, or one of the failures.
`retryLoop` lists the directory only while nobody holds `c.mu`, and then takes
one step per path: `ReadFail`, `Corrupt`, `Expire`, `Skip`, or `HandOver`
followed by `RemoveReplayed`, so that a writer, a crash or a late wiring can come
in between. `Crash` keeps the directory and resets everything else. Lists are
sorted, so they are modelled as sets from which the least name is taken.
`os.Remove` of an existing file is assumed to succeed, and the process rather
than the machine crashes (`os.WriteFile` does not sync).

In the program as it is, nobody calls `StoreMetrics` and `StoreLogs`: the
forwarders' failure paths say `TODO: hand off to cache`. The module therefore
states what the package promises its callers.

### Spool

`retryLoop` calls the callback in its own goroutine, and the callback submits to
the forwarder the pipeline and the flush loop use too: the whole batch at once
for metrics, entry by entry for logs. `Callback`, one or more `CallbackSubmit`
and `RemoveHanded` take the place of `DiskCache`'s hand-over; `CallbackReturned`
waits for the flush a Submit may have been drawn into. The callback works on the
entry `replayAll` has read into memory (`submitting`): a writer that makes room
may delete the file meanwhile, and the callback goes on. `CloseForwarder` comes
before `CloseCache`, as in `main`. A crash takes the forwarder's buffer and
leaves the directory, the requests on the wire and what the backend has stored.

### Broker

Each connection has an `inbox` of requests the client has sent (clients do not
wait for answers), the handler's program counter and current request, and the
answers written. A request is read and dispatched in one step; creating topics
and reading the topic set are two, because `handleMetadata` releases the lock in
between; each record is offered to the channel in a step of its own. A request
is what it asks for (topics, or a batch of records in format 0 or 2), an answer
what it names. `Decoded` has the numbers of records the decoder may come to: for
format 2 it goes by the batch's base sequence, see the findings, and a base
sequence that is negative or larger than what can be allocated (`MaxAlloc`) is a
panic. A panic ends the process: `running` becomes false and nothing happens any
more. `Close` is two steps, `CloseDone` and `CloseListener`; the accept loop waits
in `Accept` until the listener is closed and only then looks at `done`
(`AcceptEnd`), and an `Accept` that fails for another reason is tried again
(`AcceptError`). One produce
request carries one batch. How the bytes of a produce request become records is
`Decoder`'s.

### Bridge

`sent` holds the messages that were put into the channel and `taken` how many
the pipeline has received; the pipeline stands in its `select` or before one of
its two `Submit` calls, and is inside a forwarder while its `pc` there is not
idle. `mOrigin` and `lOrigin` note which message a sample is from. `received`
and `dropped` are the two counters, as the sets of messages counted. After
`Signal`, `main` goes through `CloseMetrics`, `CloseLog` and `Return`; nothing of
the process moves after that, while the backends still handle requests.
`NamelessLabels` says whether the relabel rules can make a label without a name,
which is what makes the encoding of a batch fail. `RecoveredSpec` has backends
that are there again: every request still on its way is accepted in the end.

### Startup and Routing

A setting that the file leaves out is 0, as in the code; `applyDefaults`,
`validate`, `topicKind`, `buildTopicSet` and the two filters of `processMessage`
are operators. `Build` panics where `time.NewTicker` does. A topic is the
sequence of its dot-separated parts, so that an identifier with a dot is
possible.

### Decoder

One step for the request header, each topic, each partition's header, each
record and each record header; positions and reads are those of the `reader`,
whose operations return zero and stay in place when the buffer is short.
`LegacyKey`, `PastV2Header` and the header of `ReadPartition` skip the fields the
code skips, not the ones the protocol has. The client's side of the format is in
`DecoderInputs`, from the protocol.

The width of an int and the greatest length of a varint are parameters
(`MaxInt`, `MaxInt32` and `VarintBytes`; 2^63 - 1, 2^31 - 1 and 10 in the code),
so that the sum of a position and a length from a varint wraps around as it does
in the code. `MaxAlloc` is the largest slice that can be allocated for the number
of records that a batch claims. TLC's instance has ints of 28 bits and varints of up to four bytes;
the theorems hold for every width that satisfies `WidthAssumption`.

### Parser, Relabel, LokiWriter, RemoteWrite

`Parser` keeps label maps in a heap, because Go maps are references: a sample
holds an index, and a map that is written after it was handed out would show.
`Relabel` applies one rule a step; `labelmap` visits the keys in any order, and
keys it has inserted may or may not be visited, as Go leaves it open. What a
regular expression matches is a parameter, given for a small vocabulary in
`RelabelInputs`; strings that are joined from several are sequences of parts.
The reference beside it is Prometheus itself, for the six actions that
`config.yaml:91` names: the rules it loads (`Loads`), its defaults for fields that
are left out and for no others, groups in `target_label`, no labels with an empty
value, a labelmap that reads the labels the rule started with. Prometheus' other
actions (`hashmod`, `lowercase`, ...) are not described; `Apply` ignores them, and
rules with them are not compared. `MeansTheSame` is where the two agree on what a
rule says.
`LokiWriter` has names and values as sequences of characters, since the
fingerprint joins them, and puts the streams into the body in any order.
`RemoteWrite` works on bytes; `ReadRequest` decodes them by the message format,
collecting the contents of the fields by their number (`Contents`), and knows
nothing of the encoder.

## Runs

| Run | Shows | Bounds |
|---|---|---|
| `forwarder` | `ExactlyOnePlace`, `BufferedInOrder`, `BufferBounded`, `AtMostOnce`, `ImplementsDelivery`, `BufferedIsSettled` | 2 submitters and the loop, batch size 2, up to 2 samples a call, 4 samples: all three goroutines can be in `flush` with different batches, and a partly filled buffer remains |
| `cache_safety` | `NoEntryVanishes`, `ReplayedOnce`, `SizeBounded` | 3 Store calls of either kind with batches that each take the limit, 4 clock readings, age limit 2, one crash, I/O errors: evictions of several files, of both kinds, expiry and interrupted writes occur |
| `cache_liveness` | `SpooledIsRetried` | 2 Store calls of both kinds, empty batches included |
| `broker` | `AnsweredInOrder`, `MetadataHasRequested`, `RecordsInOrder`, `RequestAnswered`, `CloseEndsAll` | one connection with 2 requests and one with 1, 2 topics of which one is configured, channel of 2, format 2 batches of an idempotent producer (with one record a batch, format 0 gives the same steps): requests are pipelined, topics are created between another handler's two critical sections, the channel fills up |
| `spool` | `HandedIsSubmitted`, `SpooledStoredOnce`, `SpooledIsSettled` | one spooled batch, one sample of the pipeline, batch size 2, one crash: the callback's Submit fills the batch and flushes, or leaves it to the others; a batch is replayed again after the crash |
| `bridge` | `CountedAndSubmitted`, `ArrivedIsProcessed`, `SignalEnds` | 2 messages out of metrics, log, unparsable, unknown topic and telemetry without a number; batch size 1, so that the pipeline is drawn into a flush by every Submit |
| `conversions` | the properties of the sequential parts | below |

The inputs of `conversions`:

* `Parser`: telemetry with two or three readings over 30 readings (numbers,
  strings that begin with one, strings that do not, other values; with and
  without unit), health messages with every set of three components, each log
  kind, a message of an unknown kind and one that does not decode.
* `Relabel`: every list of up to three of eleven rules, which cover all actions,
  an unknown one, joined source labels, an empty replacement; labels that
  collide with extra labels, empty labels, and names that a labelmap makes and
  matches again. `LikePrometheus` is about the lists of rules that mean the same
  to both programs: Prometheus loads them, no field is written down as empty,
  `target_label` has no group in it, a labelmap maps no label twice and no two
  labels to one, and with a labelmap no label is empty to begin with. What comes
  of the others is the question of `relabel_prometheus`.
* `LokiWriter`: batches of three entries over label sets of up to two labels
  whose values include a label's name and both separators.
  `StreamsAreLabelSets` supposes that no value has a comma in it, and shows that
  an equals sign does no harm.
* `RemoteWrite`: requests of up to two series; empty strings and strings of 130
  bytes, times on both sides of 1970 with one to ten bytes.
* `Decoder`: requests of one and two topics, of versions 0 to 9 and formats 0, 1
  and 2, cut off at every byte. `RecordsCostBytes` is checked for all of them;
  `InBounds` supposes that no varint is so near to the largest int that a sum
  with a position wraps around (`NoWrap`); `DecodesFormat0` says for which ones
  the result is right.
* `Startup`: every choice of settings left out, with and without URLs and cache,
  a topic list with white space, and an identifier with a dot, of which
  `RoutedAsDocumented` says nothing.

Deadlock is not checked: all of these systems may come to rest (everything
submitted, closed, sent or converted within the bounds).

Runs that find what the code does to differ from what is said about it:

| Run | Says | Does |
|---|---|---|
| `broker_record_batch` | a broker OME can produce to, Produce v0-v9 | the batch header is read without its checksum, the base sequence is taken for the record count, and -1 ends the process |
| `decoder_versions` | Produce v0-v9; versions 0 to 8 are announced | requests of versions 0 to 2 have no transactional id and are read as if they had one: out of step, answered, and their records lost |
| `relabel_prometheus` | Prometheus-compatible relabelling | a labelmap may map the names it has just made, depending on the order of the map |
| `bridge_spooled` | messages are spooled when a backend is unreachable and replayed on reconnect | a failed batch is logged and discarded, and never reaches a backend that is there again |
| `bridge_shutdown` | graceful shutdown | `main` waits for nobody and returns with samples in the buffers |

The models show some more, which no run is kept for; each is where a property
had to be stated with an exception or a narrower scope:

* The cache's names sort by kind first, so log files are evicted before older
  metrics files (`cache.go:103` and `config.yaml:72` say the oldest first,
  `cache.go:204` that the order of names is that of creation); two Store calls that read one nanosecond write one file (`ClockMayRepeat = TRUE`
  breaks `NoEntryVanishes`); a file that the retry loop deletes during an eviction
  stays in the sum, so that another entry can go below the limit; the time of a
  name is read before the mutex is taken, so that an older entry can appear
  after a newer one was replayed.
* The broker answers a produce request without an error when the full channel
  refused a record (`dropped` in `RecordsInOrder`).
* A spooled file is deleted when `Submit` has returned, not when the backend has
  its samples (`HandedIsSubmitted` says submitted, not stored); and as `main`
  closes the forwarders before the cache, a pass that is under way submits
  samples no flush will take (`fDone` in `SpooledIsSettled`).
* With an identifier that contains a dot no message has a known kind; an
  inventory topic listed under `metrics_topics` gives no samples, although
  `config.yaml:128` says it optionally goes to remote_write.
* A message all of whose samples a rule drops is counted as received and not as
  dropped, although `main.go:36` says "dropped (parse error or relabeling)": no
  code counts there, and `CountedAndSubmitted` leaves such messages out
  (`RelabelledAway`).
* `remote_write.timeout` and `loki.timeout` have no default, and with one left out
  the deadline of every send has passed when it starts; the shipped
  `config.yaml` sets both.
* A `replacement` written down as empty, with which Prometheus deletes the target,
  is taken for one left out; a group in `target_label` is not expanded; a label
  with an empty value is mapped by `labelmap`; the rule `README.md:123` gives for
  `ServiceTag` finds no such label, as the parser's is `service_tag`, and
  `config.yaml`'s rule for `device_type` deletes that label for the same reason.
* Readings whose names differ in case or in a character that is not allowed
  become one series (`sanitizeMetricName`); label values with a comma can share
  a fingerprint with another label set; `prompb.go:100` calls the time's
  encoding zigzag, and it is, rightly, a plain varint.
* A length that comes as a varint near the largest int wraps around in the
  reader's check, and the slice expression panics (`NoWrap` in `InBounds`). A
  request that ends within a topic name of 30 or more bytes leaves the reader in
  front of the name, which is then read as records (`DecodesFormat0` is proved
  of cut-off requests with shorter names). In version 9 the size of a record set
  is a varint and four bytes are read for it, the timestamp of a format 1 message
  is taken for its key, and the loop over the first topic's messages reads on into
  a second topic.

## Fairness

* `Forwarder`: goroutines that can run do run, the ticker fires, and a request
  ends, because the HTTP client and the context carry a timeout. Nobody is
  obliged to submit or close, nor the backend to answer.
* `DiskCache`: the holder of the mutex and the retry loop run, the ticker fires,
  main wires the callbacks. Strong fairness of `List(FALSE)` says that Go's mutex
  lets a waiting goroutine in and that the wait does not use up the pass's
  minute every single time.
* `Broker`: handlers run, a read ends at its deadline of five minutes, `Close`
  goes on to close the listener, and `Accept` fails once it is closed. Nothing is assumed of the clients or of
  the pipeline, so `RequestAnswered` holds with a pipeline that is stuck.
* `Spool`: what its two parts assume; the callback runs in the retry loop.
* `Bridge`: the pipeline, `main`, the flushes and the loops run, the tickers fire.
  Nothing obliges OME to send, a backend to answer or anybody to send the
  signal. For `bridge_spooled` alone the backends accept, in the end, each request
  that is on its way (`RecoveredSpec`): the backend that was not there is there
  again, and still does not get the message.

## Proofs

`ForwarderProofs` proves for all constants that satisfy `ForwarderAssumption`:

* `TypeCorrect`: `Spec => []TypeOK`.
* `SamplesConserved`: `Spec => []ExactlyOnePlace`. The invariant alone is not
  inductive: a goroutine outside the encoding and sending steps must hold no
  batch, otherwise the next `TakeBatch` would overwrite one. `PlacesStep` carries
  that strengthening through every action.
* `OrderKept`: `Spec => []BufferedInOrder`, which rests on `SamplesConserved`:
  the next number is larger than every number that is anywhere.
* `BufferIsBounded`: `Spec => []BufferBounded`, by counting the submitters that
  are on their way to flush; each submission that fills the buffer adds one.
* `StoredAtMostOnce`: `Spec => []AtMostOnce`. The strengthening says that
  whatever is on the wire or stored has been sent, and that what has been sent
  is neither in the buffer nor in a batch still to be encoded.

It also proves `ForwarderImplementsDelivery`: `Spec => ImplementsDelivery`, again
for all constants. Initial states map to initial states; each action is shown to
be the abstract step named above or to leave the mapped state alone. The
argument needs the invariants above: that a sample is in one place only (otherwise taking a batch out of what is kept
would take out more than the batch, or less), that idle goroutines hold nothing
(the swap would make samples disappear), and that what is on the wire or stored
was sent (a `Dispatch` must not send anything twice).

`BrokerProofs`, for any connections, topics, channel capacity and numbers of
requests and records:

* `TypeCorrect`: `Spec => []TypeOK`, and `AnswersKeepOrder`: `Spec =>
  []AnsweredInOrder`. Both come out of the inductive `HandInv`. Its additional
  part, `AnsweredUpToHand`, says that a handler at work has answered everything
  before the request in its hands and that a handler elsewhere has answered all
  it has read; without it a handler could write an answer to a request it does
  not have.
* `MetadataComplete`: `Spec => []MetadataHasRequested`. What a handler was asked
  for stays in the topic set between the two critical sections of
  `handleMetadata`, because no handler removes a topic (`AskedIsKept`).
* `RecordsKeepOrder`: `Spec => []RecordsInOrder`, by positions in what the channel
  has accepted: `received` followed by what is queued only grows at its end.

`DiskCacheProofs`, for any limits, batch sizes, numbers of Store calls and of
crashes:

* `TypeCorrect` and `SizeStaysBounded`: `Spec => []SizeBounded`. The inductive
  `SizeInv` says that the list `evictIfNeeded` works on covers the directory, and
  that `total` is at least the size of what has been summed up and is still
  there (`RoomMade`), which is what keeps `retryLoop`'s unlocked deletions from
  letting the directory grow. The size of a directory is the cardinality of the
  set of its bytes (`BytesIn`), so that it can be reasoned about without
  induction over a sum; that a set of numbers has a least one, which the order
  of names needs, follows from the well-foundedness of `<`.
* `NothingVanishes` and `NothingReplayedTwice`: `Spec => []NoEntryVanishes` and
  `Spec => []ReplayedOnce`, both under `ClockMayRepeat = FALSE`: with two Store
  calls in one nanosecond they are false. `NameInv` strengthens them with the
  freshness of names (a pending call's name is neither in the directory nor in a
  list `retryLoop` works on), with the state of the file that is being written,
  and with what `retryLoop` is about to delete: the file it has just handed over.
  `ReplayedOnce` counts the entries that were handed over and are still to be
  replayed again; a crash between the callback and `os.Remove` adds one.
* `IdsInvariant` (a lemma): no two entries come from the same Store call.

`SpoolProofs`:

* `SpoolImplementsCache`: `SpoolSpec => Spec`. The cache with a forwarder behind
  its callbacks is a cache, so the theorems of `DiskCacheProofs` hold of it.
* `HandedAreSubmitted` and `SpooledAreStoredOnce`, under `ClockMayRepeat = FALSE`.
  The inductive `TallyInv` counts the samples of each entry by their origin:
  those submitted and those the callback still has are together the entry's.
  It leans on the cache's invariants for one point, that an entry is not handed
  over a second time.

`BridgeProofs`, under `BridgeAssumption` (positive batch sizes, no message with
more than `MaxPerMessage` samples):

* `EveryMessageAccounted`: `Spec => []CountedAndSubmitted` (which leaves out the
  count of messages that relabelling has done away with), with what
  `processMessage` has done so far for the message in its hands (`InHandInv`) as
  the strengthening.
* `BridgeRunsForwarders`: `Spec => M!Spec /\ L!Spec`. Each forwarder inside the
  bridge is a forwarder, so the theorems of `ForwarderProofs` hold of both.
* `TypeCorrect`: `Spec => []TypeOK`.

`ConversionProofs` and `WireProofs` are about `Conversions`, whose sets of inputs
are parameters; a theorem's hypotheses say what an input is. What a recursive
function computes is proved without the induction theorems, by taking a least
counterexample (`LeastNumber`, from the well-foundedness of `<`).

Of the parser:

* `SamplesKeepTheirReadings`: `ReadingsKeepTheirLabels` for every telemetry message
  whose readings are a list. The inductive `Telemetry` says that the samples so
  far are those of the numeric readings visited, and that the label map that
  every copy is made of is still the device's.
* `SamplesKeepTheirComponents`: `ComponentsKeepTheirLabels` for every health
  message whose components are a finite map, in any order of the range loop
  (`Health`).

Of relabelling:

* `RelabelsLikePrometheus`: `LikePrometheus` for every list of rules and any
  functions in the place of `MatchString` and `ReplaceAllString`. The inductive
  `Applying` compares the labels that are not empty with what Prometheus has
  after the same rules, and within a labelmap with what it has after the labels
  ranged over so far; it also says that no rule makes a label empty, so that a
  labelmap finds none if there was none to begin with.

Of startup and routing:

* `LoadedConfigsStart`: `LoadedStarts` for every configuration whose durations
  and sizes are natural numbers. YAML can write down a negative duration, which
  `applyDefaults` leaves alone and `time.NewTicker` panics on.
* `RoutesAreDocumented`: `RoutedAsDocumented` for every identifier, when the topic
  lists are left out or name the documented topics of that identifier.

Of the decoder, for requests of any bytes and any length:

* `ReaderStaysInBounds` and `RecordsArePaidFor`: `InBounds` and `RecordsCostBytes`,
  from the inductive `Decoding`: the position only grows, a record is handed on
  only by a step that moves it, and it leaves the buffer only by a length that
  wraps around.
* `Format0IsDecoded`: `DecodesFormat0` for requests laid out as `SentAs` says:
  versions 3 to 8, one topic with one partition, any number of messages of format
  0 with or without keys, cut off anywhere, if a cut-off request's topic name has
  at most 29 bytes. `Reading0` says where in that layout the reader can stand at
  each stage, and that what it has handed on is the first of the messages.

Of the Loki writer:

* `LinesKeepTheirLabels`: `StreamsAreLabelSets` for batches of any length over any
  label names without an equals sign (`NamesFor`). `Grouping` says that an entry
  is in the stream of its fingerprint; that equal fingerprints come from equal
  label sets is the lemma it rests on, for values without a comma.

Of the remote_write encoder:

* `NamelessRequestsFail`: `NamelessFails` for requests of any length.
* `RequestsAreReadBack`: `RoundTrip` for requests of any number of series, labels
  and samples, strings of any bytes and length, every int64 as a time and every
  eight bytes as a value. `Encoding` says that the bytes so far are those of the
  series so far, one field each; the lemmas say that a varint is read back, that
  a field's contents are, and that the reader comes from one field to the next.

Only model-checked: liveness, which under fairness is beyond the prover:
`BufferedIsSettled`, `SpooledIsRetried`, `SpooledIsSettled`, `RequestAnswered`,
`CloseEndsAll`, `ArrivedIsProcessed`, `SignalEnds`. Every other property of the
passing runs is stated by a theorem.

## Not modelled

* The HTTP API of `main` (it reads state and writes a response), `Stats`, logging.
* TLS set-up and the construction of HTTP clients.
* The bytes of the broker's answers: they follow the Kafka protocol, which is
  not in the repository to compare with.
* JSON and YAML decoding, regular expressions, Snappy, and the compression of
  record batches, which the broker does not undo either.

## Plan

Done: the modules above, and a theorem for every invariant and action property
that the passing runs check, for the refinement of `Delivery` and for the parts
of the two compositions. Nothing of the plan is left; a change to the code is to
be followed in the definitions that `PROJECT.json` maps to its lines.
