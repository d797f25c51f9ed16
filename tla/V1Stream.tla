------------------------------- MODULE V1Stream -------------------------------
(***************************************************************************)
(* The archived v1 streaming service (legacy/v1): the WebSocket client     *)
(* with its reconnects and monitor tasks, the Kafka producer its callback  *)
(* feeds, and the shutdown of scripts/binance_stream.py.                   *)
(*                                                                         *)
(* The tasks share one event loop: each action is what one of them does    *)
(* between two awaits.  The callback blocks the loop, so a trade is one    *)
(* action, retries and flush included.  Trades are numbered as received.   *)
(***************************************************************************)
EXTENDS Integers, Sequences, SequencesExt

CONSTANTS UrlCount,    \* len(all_urls)
          MaxReconnects, \* max_reconnect_attempts
          FlushEvery,  \* trades between two flushes of the callback
          QueueMax,    \* what the producer's local queue holds
          MaxTrades,   \* bound: trades received
          MaxChanges   \* bound: changes of the venue and the broker, closed connections

ASSUME StreamConstants ==
  /\ {UrlCount, MaxReconnects, FlushEvery, QueueMax} \subseteq Nat \ {0}
  /\ UrlCount <= MaxReconnects /\ FlushEvery <= QueueMax
  /\ {MaxTrades, MaxChanges} \subseteq Nat

VARIABLES
  venue,     \* per URL: "up", "mute" (accepts, sends nothing) or "down"
  reachable, \* the broker takes what it is sent
  task,      \* where connect() is
  isRunning, monitors, \* is_running; the monitor tasks are alive
  url,       \* current_url_index
  reconnects,  \* reconnect_attempts
  silent,    \* health_check_timeout has passed since last_message_time
  aged,      \* the connection is past its lifetime
  pinging,   \* a pong is waited for
  ws,        \* a connection has been opened: the client has a handle
  pings,     \* the ping loop "sends", or "raises" at its next turn, or has "raised"
  closing,   \* one of our tasks has called close() on the connection
  received,  \* trades handed to the callback
  count,     \* trade_count
  queue,     \* the producer's local queue
  delivered,
  reported,  \* trades some error counter stands for
  late,      \* history: the last flush left something that is still there
  main,      \* where the service's main() is
  shutdown,  \* shutdown_event
  left,      \* the "messages not flushed" of the exit
  failed,    \* history: URLs that failed since the last open connection
  changes    \* counter for the bound

world == <<venue, reachable, changes>>
client == <<task, isRunning, monitors, url, reconnects, failed>>
watched == <<silent, aged, pinging, closing>>
pingLoop == <<ws, pings>>
trades == <<received, count, queue, delivered, reported, late>>
service == <<main, shutdown, left>>
streamVars == <<world, client, watched, pingLoop, trades, service>>

Url == 0..(UrlCount - 1)
Trade == 1..received

StreamTypeOK ==
  /\ venue \in [Url -> {"up", "mute", "down"}] /\ reachable \in BOOLEAN
  /\ task \in {"created", "deciding", "connecting", "open", "backoff", "done"}
  /\ {isRunning, monitors, silent, aged, pinging, closing, ws, late, shutdown} \subseteq BOOLEAN
  /\ pings \in {"sends", "raises", "raised"}
  /\ url \in Url /\ reconnects \in 0..MaxReconnects /\ failed \subseteq Url
  /\ received \in Nat /\ count \in 0..received
  /\ queue \in Seq(Trade) /\ Len(queue) <= QueueMax
  /\ delivered \cup reported \cup left \subseteq Trade
  /\ main \in {"streaming", "disconnecting", "raising", "joining", "flushing", "exited", "crashed"}
  /\ changes \in 0..MaxChanges

StreamInit ==
  /\ venue = [u \in Url |-> "up"] /\ reachable = TRUE /\ changes = 0
  /\ task = "created" /\ isRunning = FALSE /\ monitors = FALSE
  /\ url = 0 /\ reconnects = 0 /\ failed = {}
  /\ silent = FALSE /\ aged = FALSE /\ pinging = FALSE /\ closing = FALSE
  /\ ws = FALSE /\ pings \in {"sends", "raises"}
  /\ received = 0 /\ count = 0 /\ queue = <<>> /\ delivered = {} /\ reported = {} /\ late = FALSE
  /\ main = "streaming" /\ shutdown = FALSE /\ left = {}

Alive == main \notin {"exited", "crashed"}
Changes == Alive /\ changes < MaxChanges /\ changes' = changes + 1

-----------------------------------------------------------------------------
(* The venue and the broker. *)

VenueChanges ==
  /\ Changes /\ \E u \in Url, s \in {"up", "mute", "down"} : venue' = [venue EXCEPT ![u] = s]
  /\ UNCHANGED <<pingLoop, reachable, client, watched, trades, service>>

BrokerChanges ==
  /\ Changes /\ reachable' = ~reachable
  /\ UNCHANGED <<pingLoop, venue, client, watched, trades, service>>

\* The producer's own thread sends; acks=all, idempotent.
Deliver ==
  /\ Alive /\ reachable /\ queue # <<>>
  /\ queue' = Tail(queue) /\ delivered' = delivered \cup {Head(queue)}
  /\ late' = (late /\ queue' # <<>>)
  /\ UNCHANGED <<pingLoop, world, client, watched, received, count, reported, service>>

\* delivery.timeout.ms: the callback counts the error.
DeliveryTimesOut ==
  /\ Alive /\ ~reachable /\ queue # <<>>
  /\ queue' = Tail(queue) /\ reported' = reported \cup {Head(queue)}
  /\ late' = (late /\ queue' # <<>>)
  /\ UNCHANGED <<pingLoop, world, client, watched, received, count, delivered, service>>

-----------------------------------------------------------------------------
(* connect() *)

Starts ==
  /\ Alive /\ task = "created"
  /\ task' = "deciding" /\ isRunning' = TRUE /\ monitors' = TRUE
  /\ UNCHANGED <<pingLoop, world, url, reconnects, failed, watched, trades, service>>

Decide ==
  /\ Alive /\ task = "deciding"
  /\ task' = IF isRunning /\ reconnects < MaxReconnects THEN "connecting" ELSE "done"
  /\ UNCHANGED <<pingLoop, world, isRunning, monitors, url, reconnects, failed, watched, trades, service>>

\* Mutant of HandleReconnect: the failover URLs are not tried.
HandleReconnectInPlace ==
  /\ reconnects' = reconnects + 1 /\ failed' = failed \cup {url}
  /\ task' = IF reconnects' < MaxReconnects THEN "backoff" ELSE "deciding"
  /\ UNCHANGED url

\* _handle_reconnect: the next URL and a delay, unless this attempt was the last.
HandleReconnect ==
  /\ reconnects' = reconnects + 1 /\ failed' = failed \cup {url}
  /\ IF reconnects' < MaxReconnects
     THEN task' = "backoff" /\ url' = (url + 1) % UrlCount
     ELSE task' = "deciding" /\ UNCHANGED url

Backoff ==
  /\ Alive /\ task = "backoff" /\ task' = "deciding"
  /\ UNCHANGED <<pingLoop, world, isRunning, monitors, url, reconnects, failed, watched, trades, service>>

ConnectFails ==
  /\ Alive /\ task = "connecting" /\ venue[url] = "down" /\ HandleReconnect
  /\ UNCHANGED <<pingLoop, world, isRunning, monitors, watched, trades, service>>

Opens ==
  /\ Alive /\ task = "connecting" /\ venue[url] # "down"
  /\ task' = "open" /\ reconnects' = 0 /\ failed' = {}
  /\ silent' = FALSE /\ aged' = FALSE /\ ws' = TRUE
  /\ UNCHANGED <<pings, world, isRunning, monitors, url, pinging, closing, trades, service>>

\* Waiters for a pong fail with their connection (external).
Closed == closing' = FALSE /\ pinging' = FALSE /\ UNCHANGED <<silent, aged>>

\* The end of "async for": an orderly close raises nothing, any other is ConnectionClosed.
Ends(orderly) ==
  /\ Alive /\ task = "open" /\ Closed
  /\ IF orderly THEN task' = "deciding" /\ UNCHANGED <<url, reconnects, failed>> ELSE HandleReconnect
  /\ UNCHANGED <<pingLoop, isRunning, monitors, trades, service>>

VenueCloses == Changes /\ (\E orderly \in BOOLEAN : Ends(orderly)) /\ UNCHANGED <<venue, reachable>>

\* A closing handshake that nobody answers is no orderly close.
CloseCompletes == closing /\ Ends(venue[url] # "down") /\ UNCHANGED world

-----------------------------------------------------------------------------
(* The monitor tasks. *)

\* Mutant of CloseWs: the handle is of a connection that is gone.
CloseNothing == UNCHANGED closing

\* self.ws.close(), which does nothing to a closed connection.
CloseWs == closing' = (closing \/ task = "open")

Watching == Alive /\ monitors /\ isRunning

FallsSilent ==
  /\ Alive /\ ~silent /\ (task = "open" => venue[url] # "up") /\ silent' = TRUE
  /\ UNCHANGED <<pingLoop, world, client, aged, pinging, closing, trades, service>>

HealthCheck ==
  /\ Watching /\ silent /\ CloseWs
  /\ UNCHANGED <<pingLoop, world, client, silent, aged, pinging, trades, service>>

Ages ==
  /\ Alive /\ task = "open" /\ ~aged /\ aged' = TRUE
  /\ UNCHANGED <<pingLoop, world, client, silent, pinging, closing, trades, service>>

\* connection_start_time is left as it is when a connection ends.
Rotate ==
  /\ Watching /\ aged /\ CloseWs
  /\ UNCHANGED <<pingLoop, world, client, silent, aged, pinging, trades, service>>

Ping ==
  /\ Watching /\ task = "open" /\ pings = "sends" /\ ~pinging /\ pinging' = TRUE
  /\ UNCHANGED <<pingLoop, world, client, silent, aged, closing, trades, service>>

\* self.ws.closed is read outside the try, and only the legacy connections of the
\* websockets library have it: with the others the task ends by the AttributeError.
PingRaises ==
  /\ Watching /\ ws /\ pings = "raises" /\ pings' = "raised"
  /\ UNCHANGED <<ws, world, client, watched, trades, service>>

Pong ==
  /\ Watching /\ pinging /\ venue[url] # "down" /\ pinging' = FALSE
  /\ UNCHANGED <<pingLoop, world, client, silent, aged, closing, trades, service>>

PongTimesOut ==
  /\ Watching /\ pinging /\ venue[url] = "down" /\ pinging' = FALSE /\ CloseWs
  /\ UNCHANGED <<pingLoop, world, client, silent, aged, trades, service>>

-----------------------------------------------------------------------------
(* The callback, inside _handle_message. *)

Arrives ==
  /\ Alive /\ task = "open" /\ venue[url] = "up" /\ received < MaxTrades
  /\ received' = received + 1 /\ silent' = FALSE
  /\ UNCHANGED <<pingLoop, world, client, aged, pinging, closing, service>>

\* A trade that cannot be converted or serialized, or finds the queue full at every retry.
TradeFails ==
  /\ Arrives /\ reported' = reported \cup {received'}
  /\ UNCHANGED <<count, queue, delivered, late>>

\* flush(timeout): everything, or what the time is enough for: here nothing.
Flush(pending, sent) ==
  IF reachable
  THEN queue' = <<>> /\ delivered' = sent \cup Range(pending) /\ late' = FALSE
  ELSE queue' = pending /\ delivered' = sent /\ late' = (pending # <<>>)

Full == Len(queue) = QueueMax

\* _produce_with_retry polls a full queue, which empties it if the broker answers.
Produces(flushes) ==
  /\ Full => reachable
  /\ LET sent    == delivered \cup (IF Full THEN Range(queue) ELSE {})
         pending == Append(IF Full THEN <<>> ELSE queue, received')
     IN  IF flushes THEN Flush(pending, sent)
         ELSE queue' = pending /\ delivered' = sent /\ late' = (late /\ ~Full)

\* Mutant of HandleTrade: failed trades move the turn of the flush on.
HandleTradeByReceived ==
  /\ Arrives /\ count' = count + 1 /\ Produces(received' % FlushEvery = 0)
  /\ UNCHANGED reported

\* handle_trade: what cannot be produced does not count towards the next flush.
HandleTrade ==
  /\ Arrives /\ count' = count + 1 /\ Produces(count' % FlushEvery = 0)
  /\ UNCHANGED reported

-----------------------------------------------------------------------------
(* main() *)

SignalHandler ==
  /\ Alive /\ ~shutdown /\ shutdown' = TRUE
  /\ UNCHANGED <<pingLoop, world, client, watched, trades, main, left>>

\* disconnect() cancels the monitors it finds and awaits them, the ping loop last;
\* connect() goes on meanwhile.
Disconnect ==
  /\ main = "streaming" /\ shutdown /\ main' = IF pings = "raised" THEN "raising" ELSE "disconnecting"
  /\ isRunning' = FALSE /\ monitors' = FALSE /\ pinging' = FALSE
  /\ UNCHANGED <<pingLoop, world, task, url, reconnects, failed, silent, aged, closing, trades, shutdown, left>>

DisconnectCloses ==
  /\ main = "disconnecting" /\ main' = "joining" /\ CloseWs
  /\ UNCHANGED <<pingLoop, world, client, silent, aged, pinging, trades, shutdown, left>>

\* Awaiting the ping loop raises what ended it: main() exits by sys.exit(1), neither
\* closing nor flushing, and the loop cancels what is left.
DisconnectRaises ==
  /\ main = "raising" /\ main' = "crashed" /\ task' = "done" /\ Closed
  /\ UNCHANGED <<pingLoop, world, isRunning, monitors, url, reconnects, failed, trades, shutdown, left>>

Joined ==
  /\ main = "joining" /\ task = "done" /\ main' = "flushing"
  /\ UNCHANGED <<pingLoop, world, client, watched, trades, shutdown, left>>

\* Mutant of JoinTimesOut: the client's task is waited for as long as it takes.
JoinWaits == FALSE /\ UNCHANGED streamVars

\* wait_for(client_task, 5.0) cancels it where it is.
JoinTimesOut ==
  /\ main = "joining" /\ task # "done" /\ main' = "flushing" /\ task' = "done" /\ Closed
  /\ UNCHANGED <<pingLoop, world, isRunning, monitors, url, reconnects, failed, trades, shutdown, left>>

\* Mutant of Exit: the producer is let go of unflushed.
ExitUnflushed ==
  /\ main = "flushing" /\ main' = "exited" /\ left' = Range(queue)
  /\ UNCHANGED <<queue, delivered, late, pingLoop, world, client, watched, received, count, reported, shutdown>>

\* flush, then close(), which flushes again and reports what remains.
Exit ==
  /\ main = "flushing" /\ main' = "exited" /\ Flush(queue, delivered) /\ left' = Range(queue')
  /\ UNCHANGED <<pingLoop, world, client, watched, received, count, reported, shutdown>>

-----------------------------------------------------------------------------
ClientStep == Starts \/ Decide \/ Backoff \/ ConnectFails \/ Opens \/ CloseCompletes
MainStep == Disconnect \/ DisconnectRaises \/ DisconnectCloses \/ Joined \/ JoinTimesOut \/ Exit

StreamNext ==
  \/ VenueChanges \/ BrokerChanges \/ Deliver \/ DeliveryTimesOut
  \/ ClientStep \/ VenueCloses
  \/ FallsSilent \/ HealthCheck \/ Ages \/ Rotate \/ Ping \/ PingRaises \/ Pong \/ PongTimesOut
  \/ TradeFails \/ HandleTrade
  \/ SignalHandler \/ MainStep

\* The loop runs every task that is ready, and time passes.
StreamFairness ==
  /\ WF_streamVars(Starts) /\ WF_streamVars(Decide) /\ WF_streamVars(Backoff) /\ WF_streamVars(ConnectFails)
  /\ WF_streamVars(Opens) /\ WF_streamVars(CloseCompletes)
  /\ WF_streamVars(FallsSilent) /\ WF_streamVars(HealthCheck) /\ WF_streamVars(PongTimesOut)
  /\ WF_streamVars(MainStep)

StreamSpec == StreamInit /\ [][StreamNext]_streamVars /\ StreamFairness

-----------------------------------------------------------------------------
\* connect() gives up only when every URL has failed since the last connection
\* that opened ("Failover WebSocket URLs (tried in order if primary fails)").
GivesUpOnEveryUrl == task = "done" /\ reconnects = MaxReconnects => failed = Url

\* What a kill can take from the producer is less than FlushEvery trades, but
\* after a flush that timed out ("Flush producer every 10 trades to ensure
\* messages are written to Kafka").
ExposureIsBounded == Len(queue) < FlushEvery \/ late

\* After the graceful shutdown every trade received has been delivered or
\* counted as an error, or the last flush timed out on it and said so; and no
\* trade comes in behind that flush.  Only a ping loop that died of its own
\* exception stops the shutdown before the flush.
ExitLosesNothing ==
  /\ main = "exited" => task = "done" /\ left = Range(queue) /\ (reachable => left = {})
                        /\ Trade = delivered \cup reported \cup left
  /\ main = "crashed" => task = "done" /\ pings = "raised"

\* What the runbook promises of the signal: "Send SIGTERM for graceful shutdown
\* (flushes pending messages)".  The exit by the ping loop's exception flushes nothing.
SignalFlushes == ~Alive => Trade = delivered \cup reported \cup left

\* A disturbance over, the trades come back, unless connect() has given up,
\* which ends the stream and not the process, or the current URL accepts the
\* connection and sends nothing: closing that one is orderly, so the next URL
\* is not tried ("The main connect loop will automatically reconnect").
Streaming == task = "open" /\ venue[url] = "up"
TradesComeBack ==
  []<>Streaming \/ <>shutdown \/ <>(task = "done") \/ <>[](venue[url] = "mute")

\* A signal ends the service, wherever its tasks are.
ShutdownEnds == shutdown ~> ~Alive
===============================================================================
