----------------------------- MODULE RabbitProofs -----------------------------
(***************************************************************************)
(* Proofs about the RabbitMQ integration.                                  *)
(*                                                                         *)
(* Of RabbitConsumer, for any number of handlers, connections and faults:  *)
(* LinkInv is inductive when closing a connection does not raise: it says  *)
(* which of entering, recovering and leaving exclude each other, and so    *)
(* whose connection may be open.  ResumeOK and ServeOK are inductive with  *)
(* it: they follow each handler from its registration to its consumer and  *)
(* back, unless _resume walked past it.  LostOK follows the connections    *)
(* that were lost until they are closed.  The connections implement        *)
(* ConsumerChannel.                                                        *)
(*                                                                         *)
(* Of RabbitMessaging, for any messages, configurations and number of      *)
(* faults: what a step does to the copies with the broker is stated once   *)
(* per action; the invariants follow from that.  Only the ack of a         *)
(* delivery takes a copy away.  Its channel implements ConsumerChannel     *)
(* too.                                                                    *)
(***************************************************************************)
EXTENDS RabbitConsumer, RabbitMessaging, TLAPS, FiniteSetTheorems, SequenceTheorems

-----------------------------------------------------------------------------
(* The connection: the inductive invariant                                 *)

\* The link is open, being opened, recovering or being closed: at most one of them, and
\* whoever awaits the _recover task has cancelled it.
LinkOK ==
    /\ current # None <=> state = "CONNECTED"
    /\ current # None => /\ context \in {"in", "draining", "waiting"} /\ recover = "none"
                         /\ conn[current] # "none"
    /\ context \in {"out", "opening"} => state = "CLOSED" /\ recover = "none"
    /\ context = "closing" => state = "CLOSED" /\ (recover # "none" => cancelled)
    /\ cancelled => context = "closing" /\ recover # "none"
    /\ opening.pc # "no" <=> (context = "opening" \/ recover = "opening")
    /\ opening.pc \in {"start", "undo"} <=> opening.conn # None
    /\ opening.conn # None => conn[opening.conn] # "none"
    /\ recover = "new" => stale # None /\ conn[stale] # "open"

\* Only the link's connection is open, or the one it is opening; the broker has no other's
\* consumers.
ConnsOK ==
    /\ \A c \in Connections : conn[c] = "open" => c \in {current, opening.conn}
    /\ \A p \in consumers : conn[p[2]] = "open"

\* A start is for the link's channel, a removal for one the link had; a handler that was never
\* registered has left no trace.
StartsOK ==
    \A h \in Handlers :
        /\ removing[h] # None => /\ h \notin registered /\ removing[h] # opening.conn
                                 /\ conn[removing[h]] # "none"
        /\ starting[h].pc # "no" => current # None /\ starting[h].conn = current
        /\ h \notin registered \cup removed =>
              /\ tag[h] = None /\ starting[h].pc = "no" /\ h \notin opening.todo
              /\ removing[h] = None
              /\ \A c \in Connections : <<h, c>> \notin consumers

LinkInv == ConsumerTypeOK /\ LinkOK /\ ConnsOK /\ StartsOK

\* On the channel being opened, what _resume has passed is consumed, but for what it missed.
ResumeOK ==
    (context \in {"opening", "in"} /\ opening.pc = "start" /\ IsOpen(opening.conn)) =>
        \A h \in Handlers \ crossed :
            /\ <<h, opening.conn>> \in consumers
                  <=> h \in registered \ opening.todo \/ h = opening.late
            /\ h \in registered \ opening.todo => tag[h] = opening.conn
            /\ h = opening.late => h \notin registered \cup opening.todo

\* On the link's channel, every handler is consumed that is registered and not being started,
\* and so is one that was removed until remove has cancelled it, or its start, if the removal
\* overtook that.
ServeOK ==
    (context = "in" /\ IsOpen(current)) =>
        \A h \in Handlers \ crossed :
            /\ <<h, current>> \in consumers
                  <=> \/ h \in registered /\ starting[h].pc = "no"
                      \/ starting[h].pc = "cancel" \/ removing[h] = current
            /\ starting[h].pc = "cancel" => h \notin registered
            /\ starting[h].pc # "no" => removing[h] # current
            /\ h \in registered => tag[h] = IF starting[h].pc = "no" THEN current ELSE None

-----------------------------------------------------------------------------
(* Every step keeps it                                                     *)

\* Types.
LEMMA TypesKept ==
    ASSUME LinkInv, [ConsumerNext]_consumerVars
    PROVE  ConsumerTypeOK'
<1> USE ConsumerAssumption
      DEF LinkInv, ConsumerTypeOK, LinkOK, linkVars, regs, changes, broker, IsOpen, NotOpening, NotStarting,
          NotDraining
<1>1. ASSUME OpenLink PROVE ConsumerTypeOK'
  BY <1>1 DEF OpenLink
<1>2. ASSUME Connect PROVE ConsumerTypeOK'
  BY <1>2 DEF Connect
<1>3. ASSUME Refused PROVE ConsumerTypeOK'
  BY <1>3 DEF Refused, OpenRaised, LinkFault, ForgetConsumers
<1>4. ASSUME Opened PROVE ConsumerTypeOK'
  BY <1>4 DEF Opened, Resumed
<1>5. ASSUME OpenFails PROVE ConsumerTypeOK'
  BY <1>5 DEF OpenFails
<1>6. ASSUME Undo PROVE ConsumerTypeOK'
  <2>1. /\ opening' = NotOpening /\ consumers' \subseteq consumers
        /\ recover' \in {recover, "none", "sleep"} /\ cancelled' = FALSE
        /\ context' \in {context, "out"}
        /\ UNCHANGED <<state, current, stale, draining, registered, removed, removing, crossed,
                       linkFaults>>
    BY <1>6 DEF Undo, OpenRaised, Without
  <2>2. /\ tag' \in [Handlers -> Connections \cup {None}]
        /\ starting' \in [Handlers
                                  -> [pc : {"no", "start", "cancel"}, conn : Connections \cup {None}]]
    BY <1>6 DEF Undo, OpenRaised, ForgetConsumers
  <2>3. conn' \in [Connections -> {"none", "open", "lost", "closed"}]
    BY <1>6 DEF Undo, Close
  <2> QED
    BY <2>1, <2>2, <2>3
<1>7. ASSUME NEW h \in Handlers, ResumeStart(h) PROVE ConsumerTypeOK'
  <2>1. PICK late \in Handlers \cup {None} :
           opening' = [opening EXCEPT !.todo = @ \ {h}, !.late = late]
    BY <1>7 DEF ResumeStart
  <2>2. PICK c \in Connections \cup {None} : tag' = [tag EXCEPT ![h] = c]
    BY <1>7 DEF ResumeStart
  <2>3. /\ consumers' \subseteq Handlers \X Connections
        /\ UNCHANGED <<state, current, recover, stale, cancelled, context, draining, registered,
                       removed, starting, removing, crossed, conn, linkFaults>>
    BY <1>7 DEF ResumeStart
  <2> QED
    BY <2>1, <2>2, <2>3
<1>8. ASSUME NEW h \in Handlers, ResumeCancel(h) PROVE ConsumerTypeOK'
  BY <1>8 DEF ResumeCancel
<1>9. ASSUME OnClosed PROVE ConsumerTypeOK'
  BY <1>9 DEF OnClosed, ForgetConsumers
<1>10. ASSUME RecoverStale PROVE ConsumerTypeOK'
  BY <1>10 DEF RecoverStale, Close
<1>11. ASSUME RecoverWake PROVE ConsumerTypeOK'
  BY <1>11 DEF RecoverWake
<1>12. ASSUME RecoverCancelled PROVE ConsumerTypeOK'
  BY <1>12 DEF RecoverCancelled
<1>13. ASSUME StartDrain PROVE ConsumerTypeOK'
  <2>1. Cardinality(registered) \in 0..Cardinality(Handlers)
    BY FS_Subset, FS_CardinalityType
  <2> QED
    BY <1>13, <2>1 DEF StartDrain
<1>14. ASSUME Drained PROVE ConsumerTypeOK'
  <2>1. 0 \in 0..Cardinality(Handlers)
    BY FS_CardinalityType
  <2> QED
    BY <1>14, <2>1 DEF Drained
<1>15. ASSUME NEW h \in Handlers, DrainCancel(h) PROVE ConsumerTypeOK'
  BY <1>15 DEF DrainCancel
<1>16. ASSUME CloseLink PROVE ConsumerTypeOK'
  BY <1>16 DEF CloseLink, ForgetConsumers, Recovers, StopRecovery, CloseCurrent, Close, Without
<1>17. ASSUME CloseConnection PROVE ConsumerTypeOK'
  BY <1>17 DEF CloseConnection, CloseCurrent, Close, Without
<1>18. ASSUME NEW c \in Connections, Lose(c) PROVE ConsumerTypeOK'
  BY <1>18 DEF Lose, LinkFault, Without
<1>19. ASSUME NEW h \in Handlers, Register(h) PROVE ConsumerTypeOK'
  BY <1>19 DEF Register
<1>20. ASSUME NEW h \in Handlers, RemoveHandler(h) PROVE ConsumerTypeOK'
  BY <1>20 DEF RemoveHandler, MustCancel
<1>21. ASSUME NEW h \in Handlers, StartHandler(h) PROVE ConsumerTypeOK'
  BY <1>21 DEF StartHandler, StillRegistered
<1>22. ASSUME NEW h \in Handlers, StartCancel(h) PROVE ConsumerTypeOK'
  BY <1>22 DEF StartCancel
<1>23. ASSUME NEW h \in Handlers, StartFails(h) PROVE ConsumerTypeOK'
  BY <1>23 DEF StartFails
<1>25. ASSUME NEW h \in Handlers, RemoveCancel(h) PROVE ConsumerTypeOK'
  BY <1>25 DEF RemoveCancel
<1>26. ASSUME NEW h \in Handlers, RemoveFails(h) PROVE ConsumerTypeOK'
  BY <1>26 DEF RemoveFails
<1>24. CASE UNCHANGED consumerVars
  BY <1>24 DEF consumerVars
<1> QED
  BY <1>1, <1>2, <1>3, <1>4, <1>5, <1>6, <1>7, <1>8, <1>9, <1>10, <1>11, <1>12, <1>13, <1>14,
     <1>15, <1>16, <1>17, <1>18, <1>19, <1>20, <1>21, <1>22, <1>23, <1>24, <1>25, <1>26
     DEF ConsumerNext, Opening, Recovering, Draining, Starting, Removing

\* A close that raises would leave a cancelled _recover task running.
LEMMA LinkKept ==
    ASSUME ~CloseMayFail, LinkInv, [ConsumerNext]_consumerVars
    PROVE  LinkOK'
<1> USE ConsumerAssumption
      DEF LinkInv, ConsumerTypeOK, LinkOK, linkVars, regs, changes, broker, IsOpen, NotOpening, NotStarting,
          NotDraining
<1>1. ASSUME OpenLink PROVE LinkOK'
  BY <1>1 DEF OpenLink
<1>2. ASSUME Connect PROVE LinkOK'
  BY <1>2 DEF Connect
<1>3. ASSUME Refused PROVE LinkOK'
  BY <1>3 DEF Refused, OpenRaised, LinkFault, ForgetConsumers
<1>4. ASSUME Opened PROVE LinkOK'
  BY <1>4 DEF Opened, Resumed
<1>5. ASSUME OpenFails PROVE LinkOK'
  BY <1>5 DEF OpenFails
<1>6. ASSUME Undo PROVE LinkOK'
  BY <1>6 DEF Undo, OpenRaised, ForgetConsumers, Close, Without
<1>7. ASSUME NEW h \in Handlers, ResumeStart(h) PROVE LinkOK'
  BY <1>7 DEF ResumeStart
<1>8. ASSUME NEW h \in Handlers, ResumeCancel(h) PROVE LinkOK'
  BY <1>8 DEF ResumeCancel
<1>9. ASSUME OnClosed PROVE LinkOK'
  BY <1>9 DEF OnClosed, ForgetConsumers
<1>10. ASSUME RecoverStale PROVE LinkOK'
  BY <1>10 DEF RecoverStale, Close
<1>11. ASSUME RecoverWake PROVE LinkOK'
  BY <1>11 DEF RecoverWake
<1>12. ASSUME RecoverCancelled PROVE LinkOK'
  BY <1>12 DEF RecoverCancelled
<1>13. ASSUME StartDrain PROVE LinkOK'
  BY <1>13 DEF StartDrain
<1>14. ASSUME Drained PROVE LinkOK'
  BY <1>14 DEF Drained
<1>15. ASSUME NEW h \in Handlers, DrainCancel(h) PROVE LinkOK'
  BY <1>15 DEF DrainCancel
<1>16. ASSUME CloseLink PROVE LinkOK'
  BY <1>16 DEF CloseLink, ForgetConsumers, Recovers, StopRecovery, CloseCurrent, Close, Without
<1>17. ASSUME CloseConnection PROVE LinkOK'
  BY <1>17 DEF CloseConnection, CloseCurrent, Close, Without
<1>18. ASSUME NEW c \in Connections, Lose(c) PROVE LinkOK'
  BY <1>18 DEF Lose, LinkFault, Without
<1>19. ASSUME NEW h \in Handlers, Register(h) PROVE LinkOK'
  BY <1>19 DEF Register
<1>20. ASSUME NEW h \in Handlers, RemoveHandler(h) PROVE LinkOK'
  BY <1>20 DEF RemoveHandler, MustCancel
<1>21. ASSUME NEW h \in Handlers, StartHandler(h) PROVE LinkOK'
  BY <1>21 DEF StartHandler, StillRegistered
<1>22. ASSUME NEW h \in Handlers, StartCancel(h) PROVE LinkOK'
  BY <1>22 DEF StartCancel
<1>23. ASSUME NEW h \in Handlers, StartFails(h) PROVE LinkOK'
  BY <1>23 DEF StartFails
<1>25. ASSUME NEW h \in Handlers, RemoveCancel(h) PROVE LinkOK'
  BY <1>25 DEF RemoveCancel
<1>26. ASSUME NEW h \in Handlers, RemoveFails(h) PROVE LinkOK'
  BY <1>26 DEF RemoveFails
<1>24. CASE UNCHANGED consumerVars
  BY <1>24 DEF consumerVars
<1> QED
  BY <1>1, <1>2, <1>3, <1>4, <1>5, <1>6, <1>7, <1>8, <1>9, <1>10, <1>11, <1>12, <1>13, <1>14,
     <1>15, <1>16, <1>17, <1>18, <1>19, <1>20, <1>21, <1>22, <1>23, <1>24, <1>25, <1>26
     DEF ConsumerNext, Opening, Recovering, Draining, Starting, Removing

\* Every path that leaves a connection closes it, and a closed one has no consumers.
LEMMA ConnsKept ==
    ASSUME LinkInv, [ConsumerNext]_consumerVars
    PROVE  ConnsOK'
<1> USE ConsumerAssumption
      DEF LinkInv, ConsumerTypeOK, LinkOK, ConnsOK, linkVars, regs, changes, broker, IsOpen, NotOpening,
          NotStarting, NotDraining
<1>1. ASSUME OpenLink PROVE ConnsOK'
  BY <1>1 DEF OpenLink
<1>2. ASSUME Connect PROVE ConnsOK'
  BY <1>2 DEF Connect
<1>3. ASSUME Refused PROVE ConnsOK'
  BY <1>3 DEF Refused, OpenRaised, LinkFault, ForgetConsumers
<1>4. ASSUME Opened PROVE ConnsOK'
  BY <1>4 DEF Opened, Resumed
<1>5. ASSUME OpenFails PROVE ConnsOK'
  BY <1>5 DEF OpenFails
<1>6. ASSUME Undo PROVE ConnsOK'
  BY <1>6 DEF Undo, OpenRaised, ForgetConsumers, Close, Without
<1>7. ASSUME NEW h \in Handlers, ResumeStart(h) PROVE ConnsOK'
  BY <1>7 DEF ResumeStart
<1>8. ASSUME NEW h \in Handlers, ResumeCancel(h) PROVE ConnsOK'
  BY <1>8 DEF ResumeCancel
<1>9. ASSUME OnClosed PROVE ConnsOK'
  BY <1>9 DEF OnClosed, ForgetConsumers
<1>10. ASSUME RecoverStale PROVE ConnsOK'
  BY <1>10 DEF RecoverStale, Close
<1>11. ASSUME RecoverWake PROVE ConnsOK'
  BY <1>11 DEF RecoverWake
<1>12. ASSUME RecoverCancelled PROVE ConnsOK'
  BY <1>12 DEF RecoverCancelled
<1>13. ASSUME StartDrain PROVE ConnsOK'
  BY <1>13 DEF StartDrain
<1>14. ASSUME Drained PROVE ConnsOK'
  BY <1>14 DEF Drained
<1>15. ASSUME NEW h \in Handlers, DrainCancel(h) PROVE ConnsOK'
  BY <1>15 DEF DrainCancel
<1>16. ASSUME CloseLink PROVE ConnsOK'
  BY <1>16 DEF CloseLink, ForgetConsumers, Recovers, StopRecovery, CloseCurrent, Close, Without
<1>17. ASSUME CloseConnection PROVE ConnsOK'
  BY <1>17 DEF CloseConnection, CloseCurrent, Close, Without
<1>18. ASSUME NEW c \in Connections, Lose(c) PROVE ConnsOK'
  BY <1>18 DEF Lose, LinkFault, Without
<1>19. ASSUME NEW h \in Handlers, Register(h) PROVE ConnsOK'
  BY <1>19 DEF Register
<1>20. ASSUME NEW h \in Handlers, RemoveHandler(h) PROVE ConnsOK'
  BY <1>20 DEF RemoveHandler, MustCancel
<1>21. ASSUME NEW h \in Handlers, StartHandler(h) PROVE ConnsOK'
  BY <1>21 DEF StartHandler, StillRegistered
<1>22. ASSUME NEW h \in Handlers, StartCancel(h) PROVE ConnsOK'
  BY <1>22 DEF StartCancel
<1>23. ASSUME NEW h \in Handlers, StartFails(h) PROVE ConnsOK'
  BY <1>23 DEF StartFails
<1>25. ASSUME NEW h \in Handlers, RemoveCancel(h) PROVE ConnsOK'
  BY <1>25 DEF RemoveCancel
<1>26. ASSUME NEW h \in Handlers, RemoveFails(h) PROVE ConnsOK'
  BY <1>26 DEF RemoveFails
<1>24. CASE UNCHANGED consumerVars
  BY <1>24 DEF consumerVars
<1> QED
  BY <1>1, <1>2, <1>3, <1>4, <1>5, <1>6, <1>7, <1>8, <1>9, <1>10, <1>11, <1>12, <1>13, <1>14,
     <1>15, <1>16, <1>17, <1>18, <1>19, <1>20, <1>21, <1>22, <1>23, <1>24, <1>25, <1>26
     DEF ConsumerNext, Opening, Recovering, Draining, Starting, Removing

\* Starts end with the channel they are for.
LEMMA StartsKept ==
    ASSUME LinkInv, [ConsumerNext]_consumerVars
    PROVE  StartsOK'
<1> USE ConsumerAssumption
      DEF LinkInv, ConsumerTypeOK, LinkOK, StartsOK, linkVars, regs, changes, broker, IsOpen, NotOpening,
          NotStarting, NotDraining
<1>1. ASSUME OpenLink PROVE StartsOK'
  BY <1>1 DEF OpenLink
<1>2. ASSUME Connect PROVE StartsOK'
  BY <1>2 DEF Connect
<1>3. ASSUME Refused PROVE StartsOK'
  BY <1>3 DEF Refused, OpenRaised, LinkFault, ForgetConsumers
<1>4. ASSUME Opened PROVE StartsOK'
  BY <1>4 DEF Opened, Resumed
<1>5. ASSUME OpenFails PROVE StartsOK'
  BY <1>5 DEF OpenFails
<1>6. ASSUME Undo PROVE StartsOK'
  BY <1>6 DEF Undo, OpenRaised, ForgetConsumers, Close, Without
<1>7. ASSUME NEW h \in Handlers, ResumeStart(h) PROVE StartsOK'
  BY <1>7 DEF ResumeStart
<1>8. ASSUME NEW h \in Handlers, ResumeCancel(h) PROVE StartsOK'
  BY <1>8 DEF ResumeCancel
<1>9. ASSUME OnClosed PROVE StartsOK'
  BY <1>9 DEF OnClosed, ForgetConsumers
<1>10. ASSUME RecoverStale PROVE StartsOK'
  BY <1>10 DEF RecoverStale, Close
<1>11. ASSUME RecoverWake PROVE StartsOK'
  BY <1>11 DEF RecoverWake
<1>12. ASSUME RecoverCancelled PROVE StartsOK'
  BY <1>12 DEF RecoverCancelled
<1>13. ASSUME StartDrain PROVE StartsOK'
  BY <1>13 DEF StartDrain
<1>14. ASSUME Drained PROVE StartsOK'
  BY <1>14 DEF Drained
<1>15. ASSUME NEW h \in Handlers, DrainCancel(h) PROVE StartsOK'
  BY <1>15 DEF DrainCancel
<1>16. ASSUME CloseLink PROVE StartsOK'
  BY <1>16 DEF CloseLink, ForgetConsumers, Recovers, StopRecovery, CloseCurrent, Close, Without
<1>17. ASSUME CloseConnection PROVE StartsOK'
  BY <1>17 DEF CloseConnection, CloseCurrent, Close, Without
<1>18. ASSUME NEW c \in Connections, Lose(c) PROVE StartsOK'
  BY <1>18 DEF Lose, LinkFault, Without
<1>19. ASSUME NEW h \in Handlers, Register(h) PROVE StartsOK'
  BY <1>19 DEF Register
<1>20. ASSUME NEW h \in Handlers, RemoveHandler(h) PROVE StartsOK'
  BY <1>20 DEF RemoveHandler, MustCancel
<1>21. ASSUME NEW h \in Handlers, StartHandler(h) PROVE StartsOK'
  BY <1>21 DEF StartHandler, StillRegistered
<1>22. ASSUME NEW h \in Handlers, StartCancel(h) PROVE StartsOK'
  BY <1>22 DEF StartCancel
<1>23. ASSUME NEW h \in Handlers, StartFails(h) PROVE StartsOK'
  BY <1>23 DEF StartFails
<1>25. ASSUME NEW h \in Handlers, RemoveCancel(h) PROVE StartsOK'
  BY <1>25 DEF RemoveCancel
<1>26. ASSUME NEW h \in Handlers, RemoveFails(h) PROVE StartsOK'
  BY <1>26 DEF RemoveFails
<1>24. CASE UNCHANGED consumerVars
  BY <1>24 DEF consumerVars
<1> QED
  BY <1>1, <1>2, <1>3, <1>4, <1>5, <1>6, <1>7, <1>8, <1>9, <1>10, <1>11, <1>12, <1>13, <1>14,
     <1>15, <1>16, <1>17, <1>18, <1>19, <1>20, <1>21, <1>22, <1>23, <1>24, <1>25, <1>26
     DEF ConsumerNext, Opening, Recovering, Draining, Starting, Removing

\* A handler registered or removed while _resume runs has crossed it.
LEMMA ResumeKept ==
    ASSUME LinkInv, ResumeOK, [ConsumerNext]_consumerVars
    PROVE  ResumeOK'
<1> USE ConsumerAssumption
      DEF LinkInv, ConsumerTypeOK, LinkOK, ConnsOK, StartsOK, ResumeOK, linkVars, regs, changes, broker,
          IsOpen, NotOpening, NotStarting, NotDraining
<1>1. ASSUME OpenLink PROVE ResumeOK'
  BY <1>1 DEF OpenLink
<1>2. ASSUME Connect PROVE ResumeOK'
  BY <1>2 DEF Connect
<1>3. ASSUME Refused PROVE ResumeOK'
  BY <1>3 DEF Refused, OpenRaised, LinkFault, ForgetConsumers
<1>4. ASSUME Opened PROVE ResumeOK'
  BY <1>4 DEF Opened, Resumed
<1>5. ASSUME OpenFails PROVE ResumeOK'
  BY <1>5 DEF OpenFails
<1>6. ASSUME Undo PROVE ResumeOK'
  BY <1>6 DEF Undo, OpenRaised, ForgetConsumers, Close, Without
<1>7. ASSUME NEW h \in Handlers, ResumeStart(h) PROVE ResumeOK'
  BY <1>7 DEF ResumeStart
<1>8. ASSUME NEW h \in Handlers, ResumeCancel(h) PROVE ResumeOK'
  BY <1>8 DEF ResumeCancel
<1>9. ASSUME OnClosed PROVE ResumeOK'
  BY <1>9 DEF OnClosed, ForgetConsumers
<1>10. ASSUME RecoverStale PROVE ResumeOK'
  BY <1>10 DEF RecoverStale, Close
<1>11. ASSUME RecoverWake PROVE ResumeOK'
  BY <1>11 DEF RecoverWake
<1>12. ASSUME RecoverCancelled PROVE ResumeOK'
  BY <1>12 DEF RecoverCancelled
<1>13. ASSUME StartDrain PROVE ResumeOK'
  BY <1>13 DEF StartDrain
<1>14. ASSUME Drained PROVE ResumeOK'
  BY <1>14 DEF Drained
<1>15. ASSUME NEW h \in Handlers, DrainCancel(h) PROVE ResumeOK'
  BY <1>15 DEF DrainCancel
<1>16. ASSUME CloseLink PROVE ResumeOK'
  BY <1>16 DEF CloseLink, ForgetConsumers, Recovers, StopRecovery, CloseCurrent, Close, Without
<1>17. ASSUME CloseConnection PROVE ResumeOK'
  BY <1>17 DEF CloseConnection, CloseCurrent, Close, Without
<1>18. ASSUME NEW c \in Connections, Lose(c) PROVE ResumeOK'
  BY <1>18 DEF Lose, LinkFault, Without
<1>19. ASSUME NEW h \in Handlers, Register(h) PROVE ResumeOK'
  BY <1>19 DEF Register
<1>20. ASSUME NEW h \in Handlers, RemoveHandler(h) PROVE ResumeOK'
  BY <1>20 DEF RemoveHandler, MustCancel
<1>21. ASSUME NEW h \in Handlers, StartHandler(h) PROVE ResumeOK'
  BY <1>21 DEF StartHandler, StillRegistered
<1>22. ASSUME NEW h \in Handlers, StartCancel(h) PROVE ResumeOK'
  BY <1>22 DEF StartCancel
<1>23. ASSUME NEW h \in Handlers, StartFails(h) PROVE ResumeOK'
  BY <1>23 DEF StartFails
<1>25. ASSUME NEW h \in Handlers, RemoveCancel(h) PROVE ResumeOK'
  BY <1>25 DEF RemoveCancel
<1>26. ASSUME NEW h \in Handlers, RemoveFails(h) PROVE ResumeOK'
  BY <1>26 DEF RemoveFails
<1>24. CASE UNCHANGED consumerVars
  BY <1>24 DEF consumerVars
<1> QED
  BY <1>1, <1>2, <1>3, <1>4, <1>5, <1>6, <1>7, <1>8, <1>9, <1>10, <1>11, <1>12, <1>13, <1>14,
     <1>15, <1>16, <1>17, <1>18, <1>19, <1>20, <1>21, <1>22, <1>23, <1>24, <1>25, <1>26
     DEF ConsumerNext, Opening, Recovering, Draining, Starting, Removing

\* From the end of _resume on.
LEMMA ServeKept ==
    ASSUME LinkInv, ResumeOK, ServeOK, [ConsumerNext]_consumerVars
    PROVE  ServeOK'
<1> USE ConsumerAssumption
      DEF LinkInv, ConsumerTypeOK, LinkOK, ConnsOK, StartsOK, ResumeOK, ServeOK, linkVars, regs, changes,
          broker, IsOpen, NotOpening, NotStarting, NotDraining
<1>1. ASSUME OpenLink PROVE ServeOK'
  BY <1>1 DEF OpenLink
<1>2. ASSUME Connect PROVE ServeOK'
  BY <1>2 DEF Connect
<1>3. ASSUME Refused PROVE ServeOK'
  BY <1>3 DEF Refused, OpenRaised, LinkFault, ForgetConsumers
<1>4. ASSUME Opened PROVE ServeOK'
  BY <1>4 DEF Opened, Resumed
<1>5. ASSUME OpenFails PROVE ServeOK'
  BY <1>5 DEF OpenFails
<1>6. ASSUME Undo PROVE ServeOK'
  BY <1>6 DEF Undo, OpenRaised, ForgetConsumers, Close, Without
<1>7. ASSUME NEW h \in Handlers, ResumeStart(h) PROVE ServeOK'
  BY <1>7 DEF ResumeStart
<1>8. ASSUME NEW h \in Handlers, ResumeCancel(h) PROVE ServeOK'
  BY <1>8 DEF ResumeCancel
<1>9. ASSUME OnClosed PROVE ServeOK'
  BY <1>9 DEF OnClosed, ForgetConsumers
<1>10. ASSUME RecoverStale PROVE ServeOK'
  BY <1>10 DEF RecoverStale, Close
<1>11. ASSUME RecoverWake PROVE ServeOK'
  BY <1>11 DEF RecoverWake
<1>12. ASSUME RecoverCancelled PROVE ServeOK'
  BY <1>12 DEF RecoverCancelled
<1>13. ASSUME StartDrain PROVE ServeOK'
  BY <1>13 DEF StartDrain
<1>14. ASSUME Drained PROVE ServeOK'
  BY <1>14 DEF Drained
<1>15. ASSUME NEW h \in Handlers, DrainCancel(h) PROVE ServeOK'
  BY <1>15 DEF DrainCancel
<1>16. ASSUME CloseLink PROVE ServeOK'
  BY <1>16 DEF CloseLink, ForgetConsumers, Recovers, StopRecovery, CloseCurrent, Close, Without
<1>17. ASSUME CloseConnection PROVE ServeOK'
  BY <1>17 DEF CloseConnection, CloseCurrent, Close, Without
<1>18. ASSUME NEW c \in Connections, Lose(c) PROVE ServeOK'
  BY <1>18 DEF Lose, LinkFault, Without
<1>19. ASSUME NEW h \in Handlers, Register(h) PROVE ServeOK'
  BY <1>19 DEF Register
<1>20. ASSUME NEW h \in Handlers, RemoveHandler(h) PROVE ServeOK'
  BY <1>20 DEF RemoveHandler, MustCancel
<1>21. ASSUME NEW h \in Handlers, StartHandler(h) PROVE ServeOK'
  BY <1>21 DEF StartHandler, StillRegistered
<1>22. ASSUME NEW h \in Handlers, StartCancel(h) PROVE ServeOK'
  BY <1>22 DEF StartCancel
<1>23. ASSUME NEW h \in Handlers, StartFails(h) PROVE ServeOK'
  BY <1>23 DEF StartFails
<1>25. ASSUME NEW h \in Handlers, RemoveCancel(h) PROVE ServeOK'
  BY <1>25 DEF RemoveCancel
<1>26. ASSUME NEW h \in Handlers, RemoveFails(h) PROVE ServeOK'
  BY <1>26 DEF RemoveFails
<1>24. CASE UNCHANGED consumerVars
  BY <1>24 DEF consumerVars
<1> QED
  BY <1>1, <1>2, <1>3, <1>4, <1>5, <1>6, <1>7, <1>8, <1>9, <1>10, <1>11, <1>12, <1>13, <1>14,
     <1>15, <1>16, <1>17, <1>18, <1>19, <1>20, <1>21, <1>22, <1>23, <1>24, <1>25, <1>26
     DEF ConsumerNext, Opening, Recovering, Draining, Starting, Removing
-----------------------------------------------------------------------------
(* The theorems                                                            *)

\* Nothing is open at first.
LEMMA LinkInit == ConsumerInit => LinkInv
<1> SUFFICES ASSUME ConsumerInit PROVE LinkInv
  OBVIOUS
<1> USE ConsumerAssumption DEF ConsumerInit, NotOpening, NotDraining, NotStarting
<1>1. 0 \in 0..Cardinality(Handlers) /\ 0 \in 0..MaxFaults
  BY FS_CardinalityType
<1>2. ConsumerTypeOK
  BY <1>1 DEF ConsumerTypeOK
<1>3. LinkOK /\ ConnsOK /\ StartsOK
  BY DEF LinkOK, ConnsOK, StartsOK
<1> QED
  BY <1>2, <1>3 DEF LinkInv

\* Whatever is lost, refused, cancelled, registered and removed meanwhile, one side opens, is
\* connected or recovers, and only its connection is open.  (A close that raises while _recover
\* is being cancelled swallows the cancellation: that it does not is assumed throughout.)
THEOREM LinkInvariant ==
    ASSUME ~CloseMayFail
    PROVE  ConsumerSpec => []LinkInv
<1>1. LinkInv /\ [ConsumerNext]_consumerVars => LinkInv'
  BY TypesKept, LinkKept, ConnsKept, StartsKept DEF LinkInv
<1> QED
  BY <1>1, LinkInit, PTL DEF ConsumerSpec

\* Type correctness, and that at most one _open is under way.
THEOREM ConsumerTypeCorrect ==
    ASSUME ~CloseMayFail
    PROVE  ConsumerSpec => []ConsumerTypeOK
<1>1. LinkInv => ConsumerTypeOK
  BY DEF LinkInv
<1> QED
  BY <1>1, LinkInvariant, PTL

\* After the context has exited nothing recovers behind its back, whenever it was left.
THEOREM ExitCloses ==
    ASSUME ~CloseMayFail
    PROVE  ConsumerSpec => []ExitedIsClosed
<1>1. LinkInv => ExitedIsClosed
  <2> SUFFICES ASSUME LinkInv, context = "out" PROVE ExitedIsClosed
    BY DEF ExitedIsClosed
  <2>1. state = "CLOSED" /\ opening.pc = "no" /\ current = None /\ opening.conn = None
    BY DEF LinkInv, LinkOK
  <2>2. \A c \in Connections : conn[c] # "open"
    BY <2>1, ConsumerAssumption DEF LinkInv, ConnsOK
  <2>3. consumers = {}
    BY <2>2 DEF LinkInv, ConnsOK, ConsumerTypeOK
  <2> QED
    BY <2>1, <2>2, <2>3 DEF ExitedIsClosed
<1> QED
  BY <1>1, LinkInvariant, PTL

\* Registrations and the broker's consumers agree whenever the link is up and nothing is being
\* started or removed, however starts, removals, losses and resumptions crossed, for every
\* handler but those the last resumption missed.
THEOREM RegistrationsConsume ==
    ASSUME ~CloseMayFail
    PROVE  ConsumerSpec => []ConsumersAreRegistrations
<1>1. ConsumerInit => ResumeOK /\ ServeOK
  BY DEF ConsumerInit, ResumeOK, ServeOK
<1>2. LinkInv /\ ResumeOK /\ ServeOK /\ [ConsumerNext]_consumerVars => (ResumeOK /\ ServeOK)'
  BY ResumeKept, ServeKept
<1>3. LinkInv /\ ServeOK => ConsumersAreRegistrations
  <2> SUFFICES ASSUME ServeOK, context = "in", IsOpen(current),
                      \A h \in Handlers : starting[h].pc = "no" /\ removing[h] = None,
                      ConsumerTypeOK
               PROVE  {h \in Handlers : <<h, current>> \in consumers} \ crossed
                         = registered \ crossed
    BY DEF ConsumersAreRegistrations, LinkInv
  <2>1. current # None
    BY DEF IsOpen
  <2> QED
    BY <2>1 DEF ServeOK, ConsumerTypeOK
<1> QED
  BY <1>1, <1>2, <1>3, LinkInvariant, PTL DEF ConsumerSpec

-----------------------------------------------------------------------------
(* What leaving leaves                                                     *)

\* A connection whose channel was lost is still to be closed.
LostOK ==
    \A c \in Connections : conn[c] = "lost" =>
        c \in {current, opening.conn} \/ (recover = "new" /\ c = stale)

\* The _recover task is never cancelled before its first step.
FirstStepTaken == ConsumerNext /\ ~(recover = "new" /\ RecoverCancelled)

\* Whoever loses or drops a connection closes it, or starts the _recover task that does.
LEMMA LostKept ==
    ASSUME LinkInv, LostOK, [FirstStepTaken]_consumerVars
    PROVE  LostOK'
<1> USE ConsumerAssumption
      DEF LinkInv, ConsumerTypeOK, LinkOK, LostOK, linkVars, regs, changes, broker, IsOpen, NotOpening,
          NotStarting, NotDraining
<1>1. ASSUME OpenLink PROVE LostOK'
  BY <1>1 DEF OpenLink
<1>2. ASSUME Connect PROVE LostOK'
  BY <1>2 DEF Connect
<1>3. ASSUME Refused PROVE LostOK'
  BY <1>3 DEF Refused, OpenRaised, LinkFault, ForgetConsumers
<1>4. ASSUME Opened PROVE LostOK'
  BY <1>4 DEF Opened, Resumed
<1>5. ASSUME OpenFails PROVE LostOK'
  BY <1>5 DEF OpenFails
<1>6. ASSUME Undo PROVE LostOK'
  BY <1>6 DEF Undo, OpenRaised, ForgetConsumers, Close, Without
<1>7. ASSUME NEW h \in Handlers, ResumeStart(h) PROVE LostOK'
  BY <1>7 DEF ResumeStart
<1>8. ASSUME NEW h \in Handlers, ResumeCancel(h) PROVE LostOK'
  BY <1>8 DEF ResumeCancel
<1>9. ASSUME OnClosed PROVE LostOK'
  BY <1>9 DEF OnClosed, ForgetConsumers
<1>10. ASSUME RecoverStale PROVE LostOK'
  BY <1>10 DEF RecoverStale, Close
<1>11. ASSUME RecoverWake PROVE LostOK'
  BY <1>11 DEF RecoverWake
<1>12. ASSUME RecoverCancelled, recover # "new" PROVE LostOK'
  BY <1>12 DEF RecoverCancelled
<1>13. ASSUME StartDrain PROVE LostOK'
  BY <1>13 DEF StartDrain
<1>14. ASSUME Drained PROVE LostOK'
  BY <1>14 DEF Drained
<1>15. ASSUME NEW h \in Handlers, DrainCancel(h) PROVE LostOK'
  BY <1>15 DEF DrainCancel
<1>16. ASSUME CloseLink PROVE LostOK'
  BY <1>16 DEF CloseLink, ForgetConsumers, Recovers, StopRecovery, CloseCurrent, Close, Without
<1>17. ASSUME CloseConnection PROVE LostOK'
  BY <1>17 DEF CloseConnection, CloseCurrent, Close, Without
<1>18. ASSUME NEW c \in Connections, Lose(c) PROVE LostOK'
  BY <1>18 DEF Lose, LinkFault, Without, ConnsOK
<1>19. ASSUME NEW h \in Handlers, Register(h) PROVE LostOK'
  BY <1>19 DEF Register
<1>20. ASSUME NEW h \in Handlers, RemoveHandler(h) PROVE LostOK'
  BY <1>20 DEF RemoveHandler, MustCancel
<1>21. ASSUME NEW h \in Handlers, StartHandler(h) PROVE LostOK'
  BY <1>21 DEF StartHandler, StillRegistered
<1>22. ASSUME NEW h \in Handlers, StartCancel(h) PROVE LostOK'
  BY <1>22 DEF StartCancel
<1>23. ASSUME NEW h \in Handlers, StartFails(h) PROVE LostOK'
  BY <1>23 DEF StartFails
<1>25. ASSUME NEW h \in Handlers, RemoveCancel(h) PROVE LostOK'
  BY <1>25 DEF RemoveCancel
<1>26. ASSUME NEW h \in Handlers, RemoveFails(h) PROVE LostOK'
  BY <1>26 DEF RemoveFails
<1>24. CASE UNCHANGED consumerVars
  BY <1>24 DEF consumerVars
<1> QED
  BY <1>1, <1>2, <1>3, <1>4, <1>5, <1>6, <1>7, <1>8, <1>9, <1>10, <1>11, <1>12, <1>13, <1>14,
     <1>15, <1>16, <1>17, <1>18, <1>19, <1>20, <1>21, <1>22, <1>23, <1>24, <1>25, <1>26
     DEF FirstStepTaken, ConsumerNext, Opening, Recovering, Draining, Starting, Removing

\* The docstring of __aexit__ holds but for one race: if a _recover task always gets to its
\* first step before it is cancelled, nothing is left open by leaving, whatever was lost before.
THEOREM ExitLeavesNothing ==
    ASSUME ~CloseMayFail
    PROVE  ConsumerInit /\ [][FirstStepTaken]_consumerVars => []NothingLeft
<1>1. ConsumerInit => LostOK
  BY DEF ConsumerInit, LostOK
<1>2. LinkInv /\ [FirstStepTaken]_consumerVars => LinkInv'
  BY TypesKept, LinkKept, ConnsKept, StartsKept DEF LinkInv, FirstStepTaken
<1>3. LinkInv /\ LostOK /\ [FirstStepTaken]_consumerVars => LostOK'
  BY LostKept
<1>4. LinkInv /\ LostOK => NothingLeft
  <2> SUFFICES ASSUME LinkInv, LostOK, context = "out", NEW c \in Connections
               PROVE  conn[c] \in {"none", "closed"}
    BY DEF NothingLeft
  <2>1. recover = "none" /\ current = None /\ opening.conn = None
    BY DEF LinkInv, LinkOK
  <2> QED
    BY <2>1, ConsumerAssumption DEF LinkInv, ConnsOK, ConsumerTypeOK, LostOK
<1> QED
  BY <1>1, <1>2, <1>3, <1>4, LinkInit, PTL

-----------------------------------------------------------------------------
(* The connections are the channels that ConsumerChannel describes         *)

\* The connection that _recover closes was opened.
StaleOK == recover = "new" => conn[stale] # "none"

LEMMA StaleKept ==
    ASSUME LinkInv, StaleOK, [ConsumerNext]_consumerVars
    PROVE  StaleOK'
<1> USE ConsumerAssumption
      DEF LinkInv, ConsumerTypeOK, LinkOK, StaleOK, linkVars, regs, changes, broker, IsOpen, NotOpening,
          NotStarting, NotDraining
<1>1. ASSUME OnClosed PROVE StaleOK'
  BY <1>1 DEF OnClosed, ForgetConsumers
<1>2. ASSUME recover' # "new" PROVE StaleOK'
  BY <1>2
<1>3. ASSUME recover' = recover, stale' = stale,
             \A c \in Connections : conn[c] # "none" => conn'[c] # "none"
      PROVE  StaleOK'
  BY <1>3
<1>4. ASSUME OpenLink \/ Connect \/ Opened \/ OpenFails PROVE StaleOK'
  BY <1>2, <1>3, <1>4 DEF OpenLink, Connect, Opened, OpenFails
<1>5. ASSUME Refused \/ Undo PROVE StaleOK'
  BY <1>5, <1>2, <1>3 DEF Refused, Undo, OpenRaised, Close
<1>6. ASSUME NEW h \in Handlers, ResumeStart(h) \/ ResumeCancel(h) PROVE StaleOK'
  BY <1>6 DEF ResumeStart, ResumeCancel
<1>7. ASSUME RecoverStale \/ RecoverWake \/ RecoverCancelled PROVE StaleOK'
  BY <1>7 DEF RecoverStale, RecoverWake, RecoverCancelled
<1>8. ASSUME StartDrain \/ Drained \/ \E h \in Handlers : DrainCancel(h) PROVE StaleOK'
  BY <1>8 DEF StartDrain, Drained, DrainCancel
<1>9. ASSUME CloseLink \/ CloseConnection PROVE StaleOK'
  BY <1>9, <1>3 DEF CloseLink, CloseConnection, CloseCurrent, Close
<1>10. ASSUME NEW c \in Connections, Lose(c) PROVE StaleOK'
  BY <1>10 DEF Lose
<1>11. ASSUME NEW h \in Handlers, Register(h) \/ RemoveHandler(h) PROVE StaleOK'
  BY <1>11 DEF Register, RemoveHandler
<1>12. ASSUME NEW h \in Handlers, Starting(h) PROVE StaleOK'
  BY <1>12 DEF Starting, StartHandler, StartCancel, StartFails
<1>14. ASSUME NEW h \in Handlers, Removing(h) PROVE StaleOK'
  BY <1>14 DEF Removing, RemoveCancel, RemoveFails
<1>13. CASE UNCHANGED consumerVars
  BY <1>13 DEF consumerVars
<1> QED
  BY <1>1, <1>4, <1>5, <1>6, <1>7, <1>8, <1>9, <1>10, <1>11, <1>12, <1>13, <1>14
     DEF ConsumerNext, Opening, Recovering, Draining

\* How many connections were opened so far.
LEMMA UsedCount ==
    /\ IsFiniteSet(Used) /\ Cardinality(Used) \in Nat
    /\ \A c \in Connections : conn[c] # "none" => Cardinality(Used) > 0
<1>1. Used \subseteq 1..MaxConnections
  BY DEF Used, Connections
<1>2. IsFiniteSet(Used)
  <2>1. 1 \in Int /\ MaxConnections \in Int
    BY ConsumerAssumption
  <2>2. IsFiniteSet(1..MaxConnections)
    BY <2>1, FS_Interval
  <2> QED
    BY <1>1, <2>2, FS_Subset
<1>3. ASSUME NEW c \in Connections, conn[c] # "none" PROVE Cardinality(Used) > 0
  <2>1. Used # {}
    BY <1>3 DEF Used
  <2> QED
    BY <2>1, <1>2, FS_EmptySet, FS_CardinalityType
<1> QED
  BY <1>2, <1>3, FS_CardinalityType

\* A connection that was opened goes on to count as one.
LEMMA UsedStays ==
    ASSUME ConsumerTypeOK, NEW c \in Connections, conn[c] # "none",
           NEW s \in {"open", "lost", "closed"}, conn' = [conn EXCEPT ![c] = s]
    PROVE  Used' = Used
BY DEF Used, ConsumerTypeOK

\* At most one connection is open, and the broker has no other's consumers.
LEMMA OneOpen ==
    ASSUME LinkInv
    PROVE  /\ current = None \/ opening.conn = None
           /\ \A c, d \in Connections : conn[c] = "open" /\ conn[d] = "open" => c = d
           /\ \A c \in Connections :
                 (\A d \in Connections : conn[d] = "open" => d = c) => Without(c) = {}
           /\ consumers # {} => SomeOpen
<1>1. current = None \/ opening.conn = None
  BY DEF LinkInv, LinkOK
<1>2. \A c, d \in Connections : conn[c] = "open" /\ conn[d] = "open" => c = d
  BY <1>1, ConsumerAssumption DEF LinkInv, ConnsOK
<1>3. \A p \in consumers : p[2] \in Connections /\ conn[p[2]] = "open"
  BY DEF LinkInv, ConnsOK, ConsumerTypeOK
<1> QED
  BY <1>1, <1>2, <1>3 DEF Without, SomeOpen

LEMMA SameChannel ==
    ASSUME conn' = conn, consumers' = consumers, (current' # None) = (current # None)
    PROVE  UNCHANGED Channel!channelVars
BY DEF Channel!channelVars, Used, SomeOpen

\* Handlers are started and removed on the open channel.
LEMMA ChangesChannel ==
    ASSUME conn' = conn, current' = current, SomeOpen
    PROVE  Channel!Change
BY DEF Channel!Change, Used, SomeOpen

\* A connection is closed, or its channel lost: it was open, so nothing is open or consumed any
\* more, or it was not, and only the link may have held it.
LEMMA ShutsChannel ==
    ASSUME LinkInv, NEW c \in Connections, conn[c] # "none",
           NEW s \in {"lost", "closed"}, conn' = [conn EXCEPT ![c] = s],
           consumers' = Without(c),
           current' = current \/ current' = None, current # None => c = current
    PROVE  [Channel!ChannelNext]_(Channel!channelVars)
<1> USE DEF LinkInv
<1>1. Used' = Used
  BY UsedStays
<1>2. CASE conn[c] = "open"
  <2>1. SomeOpen /\ ~SomeOpen'
    BY <1>2, OneOpen DEF SomeOpen, ConsumerTypeOK
  <2>2. consumers' = {}
    BY <1>2, OneOpen
  <2>3. /\ SomeOpen' = FALSE /\ (consumers' # {}) = FALSE
        /\ (current' # None) \in {current # None, FALSE}
    <3>1. SomeOpen' = FALSE /\ (consumers' # {}) = FALSE
      BY <2>1, <2>2
    <3>2. CASE current' = current
      BY <3>1, <3>2
    <3>3. CASE current' = None
      <4>1. (current' # None) = FALSE
        BY <3>3
      <4> QED
        BY <3>1, <4>1
    <3> QED
      BY <3>2, <3>3
  <2>4. Channel!Shut
    BY <1>1, <2>1, <2>3 DEF Channel!Shut
  <2> QED
    BY <2>4 DEF Channel!ChannelNext
<1>3. CASE conn[c] # "open"
  <2>1. SomeOpen' = SomeOpen
    BY <1>3 DEF SomeOpen, ConsumerTypeOK
  <2>2. consumers' = consumers
    BY <1>3 DEF ConnsOK, Without
  <2>3. CASE (current' # None) = (current # None)
    BY <1>1, <2>1, <2>2, <2>3 DEF Channel!channelVars
  <2>4. CASE current # None /\ current' = None
    <3>1. ~SomeOpen
      <4>1. c = current /\ opening.conn = None
        BY <2>4, OneOpen
      <4> QED
        BY <4>1, <1>3, ConsumerAssumption DEF SomeOpen, ConnsOK
    <3>2. Channel!Drop
      BY <1>1, <2>1, <2>2, <2>4, <3>1 DEF Channel!Drop
    <3> QED
      BY <3>2 DEF Channel!ChannelNext
  <2> QED
    BY <2>3, <2>4
<1> QED
  BY <1>2, <1>3

\* Every step of the link, of the handlers and of the context is a step of the channel or none.
LEMMA ChannelStep ==
    ASSUME LinkInv, StaleOK, [ConsumerNext]_consumerVars
    PROVE  [Channel!ChannelNext]_(Channel!channelVars)
<1> DEFINE Goal == [Channel!ChannelNext]_(Channel!channelVars)
<1> USE ConsumerAssumption DEF linkVars, regs, changes, broker
<1>1. ASSUME conn' = conn, consumers' = consumers, current' = current PROVE Goal
  BY <1>1, SameChannel
<1>2. ASSUME conn' = conn, current' = current, SomeOpen PROVE Goal
  BY <1>2, ChangesChannel DEF Channel!ChannelNext
<1>3. ASSUME NEW c, c \in Connections \cup {None}, IsOpen(c) PROVE SomeOpen
  BY <1>3 DEF IsOpen, SomeOpen
<1>4. ASSUME OpenLink \/ Refused \/ OpenFails \/ RecoverWake \/ RecoverCancelled
               \/ StartDrain \/ Drained
      PROVE  Goal
  <2>1. conn' = conn /\ consumers' = consumers /\ current' = current
    BY <1>4 DEF OpenLink, Refused, OpenFails, RecoverWake, RecoverCancelled, StartDrain, Drained
  <2> QED
    BY <2>1, <1>1
<1>5. ASSUME NEW h \in Handlers,
             Register(h) \/ StartFails(h) \/ RemoveHandler(h) \/ RemoveFails(h)
      PROVE  Goal
  <2>1. conn' = conn /\ consumers' = consumers /\ current' = current
    BY <1>5 DEF Register, StartFails, RemoveHandler, RemoveFails
  <2> QED
    BY <2>1, <1>1
<1>6. ASSUME Connect PROVE Goal
  <2>1. PICK c \in Connections : conn[c] = "none" /\ conn' = [conn EXCEPT ![c] = "open"]
    BY <1>6 DEF Connect
  <2>2. current = None /\ opening.conn = None
    BY <1>6 DEF Connect, LinkInv, LinkOK, ConsumerTypeOK
  <2>3. ~SomeOpen
    BY <2>2 DEF SomeOpen, LinkInv, ConnsOK
  <2>4. SomeOpen' = TRUE
    BY <2>1 DEF SomeOpen, LinkInv, ConsumerTypeOK
  <2>5. Used' = Used \cup {c} /\ c \notin Used
    BY <2>1 DEF Used, LinkInv, ConsumerTypeOK
  <2>6. Cardinality(Used)' = Cardinality(Used) + 1
    BY <2>5, UsedCount, FS_AddElement
  <2>7. current' = None /\ consumers' = consumers
    BY <1>6, <2>2 DEF Connect
  <2>8. (current # None)' \in BOOLEAN /\ (consumers # {})' \in BOOLEAN
    OBVIOUS
  <2>9. Channel!Open
    BY <2>2, <2>3, <2>4, <2>6, <2>8 DEF Channel!Open
  <2> QED
    BY <2>9 DEF Channel!ChannelNext
<1>7. ASSUME Opened PROVE Goal
  <2>1. current = None /\ opening.conn \in Connections /\ conn[opening.conn] # "none"
    BY <1>7 DEF Opened, Resumed, LinkInv, LinkOK, ConsumerTypeOK
  <2>2. conn' = conn /\ consumers' = consumers /\ current' = opening.conn
    BY <1>7 DEF Opened
  <2>3. UNCHANGED <<Cardinality(Used), SomeOpen, consumers # {}>>
    BY <2>2 DEF Used, SomeOpen
  <2>4. Cardinality(Used) > 0
    BY <2>1, UsedCount
  <2>5. (current # None) = FALSE /\ (current # None)' = TRUE
    BY <2>1, <2>2
  <2>6. Channel!Hold
    BY <2>3, <2>4, <2>5 DEF Channel!Hold
  <2> QED
    BY <2>6 DEF Channel!ChannelNext
<1>8. ASSUME NEW h \in Handlers, ResumeStart(h) \/ ResumeCancel(h) PROVE Goal
  <2>1. conn' = conn /\ current' = current /\ IsOpen(opening.conn)
    BY <1>8 DEF ResumeStart, ResumeCancel
  <2>2. opening.conn \in Connections \cup {None}
    BY DEF LinkInv, ConsumerTypeOK
  <2> QED
    BY <2>1, <2>2, <1>2, <1>3
<1>9. ASSUME NEW h \in Handlers, StartHandler(h) \/ StartCancel(h) PROVE Goal
  <2>1. conn' = conn /\ current' = current /\ IsOpen(starting[h].conn)
    BY <1>9 DEF StartHandler, StartCancel
  <2>2. starting[h].conn \in Connections \cup {None}
    BY DEF LinkInv, ConsumerTypeOK
  <2> QED
    BY <2>1, <2>2, <1>2, <1>3
<1>10. ASSUME NEW h \in Handlers, RemoveCancel(h) PROVE Goal
  <2>1. conn' = conn /\ current' = current /\ IsOpen(removing[h])
    BY <1>10 DEF RemoveCancel
  <2>2. removing[h] \in Connections \cup {None}
    BY DEF LinkInv, ConsumerTypeOK
  <2> QED
    BY <2>1, <2>2, <1>2, <1>3
<1>11. ASSUME NEW h \in Handlers, DrainCancel(h) PROVE Goal
  <2>1. /\ conn' = conn /\ current' = current /\ consumers' = consumers \ {<<h, tag[h]>>}
        /\ tag[h] = None \/ IsOpen(tag[h])
    BY <1>11 DEF DrainCancel
  <2>2. tag[h] \in Connections \cup {None} /\ consumers \subseteq Handlers \X Connections
    BY DEF LinkInv, ConsumerTypeOK
  <2>3. tag[h] = None => consumers' = consumers
    BY <2>1, <2>2
  <2> QED
    BY <2>1, <2>2, <2>3, <1>1, <1>2, <1>3
<1>12. ASSUME NEW c \in Connections, Lose(c) PROVE Goal
  <2>1. /\ conn[c] = "open" /\ conn' = [conn EXCEPT ![c] = "lost"] /\ consumers' = Without(c)
        /\ current' = current
    BY <1>12 DEF Lose
  <2>2. current # None => c = current
    BY <2>1, OneOpen DEF LinkInv, ConnsOK
  <2> QED
    BY <2>1, <2>2, ShutsChannel
<1>13. ASSUME Undo PROVE Goal
  <2>1. /\ conn' = [conn EXCEPT ![opening.conn] = "closed"] /\ consumers' = Without(opening.conn)
        /\ current' = current /\ opening.pc = "undo"
    BY <1>13 DEF Undo, Close
  <2>2. opening.conn \in Connections /\ conn[opening.conn] # "none" /\ current = None
    BY <2>1 DEF LinkInv, LinkOK, ConsumerTypeOK
  <2> QED
    BY <2>1, <2>2, ShutsChannel
<1>14. ASSUME OnClosed PROVE Goal
  <2>1. current # None /\ ~IsOpen(current) /\ current' = None
    BY <1>14 DEF OnClosed, LinkInv, LinkOK
  <2>2. conn' = conn /\ consumers' = consumers
    BY <1>14 DEF OnClosed
  <2>3. ~SomeOpen
    BY <2>1, OneOpen DEF LinkInv, ConnsOK, SomeOpen, IsOpen
  <2>4. UNCHANGED <<Cardinality(Used), SomeOpen, consumers # {}>>
    BY <2>2 DEF Used, SomeOpen
  <2>5. (current # None)' = FALSE
    BY <2>1
  <2>6. Channel!Drop
    BY <2>1, <2>3, <2>4, <2>5 DEF Channel!Drop
  <2> QED
    BY <2>6 DEF Channel!ChannelNext
<1>15. ASSUME RecoverStale PROVE Goal
  <2>1. /\ recover = "new" /\ conn' = [conn EXCEPT ![stale] = "closed"]
        /\ consumers' = consumers /\ current' = current
    BY <1>15 DEF RecoverStale, Close
  <2>2. /\ stale \in Connections /\ conn[stale] \notin {"none", "open"} /\ current = None
    BY <2>1 DEF LinkInv, LinkOK, ConsumerTypeOK, StaleOK
  <2>3. consumers' = Without(stale)
    BY <2>1, <2>2 DEF LinkInv, ConnsOK, Without
  <2> QED
    BY <2>1, <2>2, <2>3, ShutsChannel
<1>16. ASSUME CloseCurrent PROVE Goal
  <2>1. CASE current = None
    BY <1>16, <2>1, <1>1 DEF CloseCurrent
  <2>2. CASE current # None
    <3>1. /\ conn' = [conn EXCEPT ![current] = "closed"] /\ consumers' = Without(current)
          /\ current' = None
      BY <1>16, <2>2 DEF CloseCurrent, Close
    <3>2. current \in Connections /\ conn[current] # "none"
      BY <2>2 DEF LinkInv, LinkOK, ConsumerTypeOK
    <3> QED
      BY <3>1, <3>2, ShutsChannel
  <2> QED
    BY <2>1, <2>2
<1>17. ASSUME CloseLink \/ CloseConnection PROVE Goal
  <2>1. CloseCurrent \/ (conn' = conn /\ consumers' = consumers /\ current' = current)
    BY <1>17 DEF CloseLink, CloseConnection
  <2> QED
    BY <2>1, <1>1, <1>16
<1>18. CASE UNCHANGED consumerVars
  BY <1>18, <1>1 DEF consumerVars
<1> QED
  BY <1>4, <1>5, <1>6, <1>7, <1>8, <1>9, <1>10, <1>11, <1>12, <1>13, <1>14, <1>15, <1>17, <1>18
     DEF ConsumerNext, Opening, Recovering, Draining, Starting, Removing

\* RabbitConsumer implements ConsumerChannel: through losses, cancelled recoveries, removals
\* that cross a start and exits, one channel is open at a time, each is a new one, and what the
\* broker delivers comes on the one that is open.
THEOREM ChannelImplemented ==
    ASSUME ~CloseMayFail
    PROVE  ConsumerSpec => ImplementsChannel
<1>1. ConsumerInit => StaleOK /\ Channel!ChannelInit
  <2> SUFFICES ASSUME ConsumerInit PROVE StaleOK /\ Channel!ChannelInit
    OBVIOUS
  <2>1. Used = {} /\ ~SomeOpen
    BY DEF ConsumerInit, Used, SomeOpen
  <2>2. Cardinality(Used) = 0
    BY <2>1, FS_EmptySet
  <2> QED
    BY <2>1, <2>2 DEF ConsumerInit, StaleOK, Channel!ChannelInit
<1>2. LinkInv /\ StaleOK /\ [ConsumerNext]_consumerVars => StaleOK'
  BY StaleKept
<1>3. LinkInv /\ StaleOK /\ [ConsumerNext]_consumerVars
         => [Channel!ChannelNext]_(Channel!channelVars)
  BY ChannelStep
<1>4. ConsumerSpec => []LinkInv
  BY LinkInvariant
<1> QED
  BY <1>1, <1>2, <1>3, <1>4, PTL DEF ConsumerSpec, ImplementsChannel, Channel!ChannelSpec

-----------------------------------------------------------------------------
(* Messages: types and invariants                                          *)

Places == {"queue", "retry", "dead"}
Copy == [place : Places, message : Messages, attempts : Nat]
Numbers == 1..(config.prefetch + 1)

EmitPCs == {"idle", "declaring", "declared", "publishing", "confirming", "returned", "failed"}
TaskPCs == {"created", "handling", "refused", "closing", "failing", "confirming", "acking"}

Delivery(t) ==
    /\ t = [pc |-> t.pc, copy |-> t.copy, stack |-> t.stack, due |-> t.due, failed |-> t.failed]
    /\ t.pc \in TaskPCs /\ t.copy \in Copy /\ t.copy.place = "queue"
    /\ t.due \in BOOLEAN /\ t.failed \in BOOLEAN

Channels == [id : Nat, open : BOOLEAN, known : BOOLEAN, consuming : BOOLEAN]

PublisherTyped ==
    /\ exchange \in BOOLEAN /\ bound \in BOOLEAN
    /\ emits \in [Messages -> [pc : EmitPCs, open : BOOLEAN]]
    /\ link \in [open : BOOLEAN, known : BOOLEAN]

DeliveryTyped ==
    /\ config \in Configurations
    /\ DOMAIN stored \subseteq Copy
    /\ channel \in Channels
    /\ DOMAIN unacked \subseteq {channel.id} \X Numbers
    /\ \A d \in DOMAIN unacked : unacked[d] \in Copy /\ unacked[d].place = "queue"
    /\ Deliveries \subseteq (0..channel.id) \X Numbers
    /\ \A d \in Deliveries : Delivery(task[d])
    /\ succeeded \subseteq Messages
    /\ failed \in [Messages -> Nat]

Typed == PublisherTyped /\ DeliveryTyped

\* A delivery on the channel in use is unacked and carries the broker's copy; a channel that is
\* gone has no unacked copies.
UnackedOK ==
    /\ channel.open => channel.known
    /\ \A d \in DOMAIN unacked : channel.open /\ (d \in Deliveries => task[d].copy = unacked[d])
    /\ \A d \in Deliveries : Usable(d) => d \in DOMAIN unacked

\* A copy has not been tried more often than its message's handling failed.
Counted(copy) ==
    copy.message \in config.decodable =>
        copy.attempts <= failed[copy.message] /\ copy.attempts <= config.policy.retries

StepOK(d) ==
    LET m == task[d].copy.message IN
    /\ task[d].pc \in {"created", "handling", "refused", "closing"} => ~task[d].failed
    /\ task[d].pc \in {"handling", "closing", "failing"} => m \in config.decodable
    /\ task[d].pc = "refused" => m \notin config.decodable
    /\ task[d].pc = "failing" => failed[m] > task[d].copy.attempts

AttemptsOK ==
    /\ \A copy \in DOMAIN stored : copy.place # "dead" => Counted(copy)
    /\ \A d \in DOMAIN unacked : Counted(unacked[d])
    /\ \A d \in Deliveries : Counted(task[d].copy) /\ StepOK(d)
    /\ DeadAfterRetries

-----------------------------------------------------------------------------
(* What keeps a message                                                    *)

\* A copy of m tried a times waits for its delivery, or for its ack.
Live(m, a) ==
    \/ \E copy \in DOMAIN stored :
          copy.place # "dead" /\ copy.message = m /\ copy.attempts = a
    \/ \E d \in DOMAIN unacked : unacked[d].message = m /\ unacked[d].attempts = a

\* m is kept without its copies tried a times or less.
KeptBeyond(m, a) == (\E b \in Nat : b > a /\ Live(m, b)) \/ m \in succeeded \/ GivenUp(m)

\* What a failed delivery is acked for: its copy has been replaced, or m is given up.
ReplacedOK ==
    \A d \in Deliveries :
        task[d].pc \in {"confirming", "acking"} /\ task[d].failed /\ Usable(d)
            => KeptBeyond(task[d].copy.message, task[d].copy.attempts)

\* The publisher made sure that there is a queue.
Routed == (config.topology /\ config.binds) \/ config.mandatory

\* A publisher that declares the topology has a queue as long as its channel is open.
QueueBound ==
    config.topology /\ config.binds =>
        /\ link.open => bound
        /\ \A m \in Messages : emits[m].open => link.open /\ bound

PublishedOK ==
    /\ QueueBound
    /\ Routed => \A m \in Messages : emits[m].pc \in {"confirming", "returned"} => KeptBeyond(m, -1)

-----------------------------------------------------------------------------
(* The scopes of deliveries                                                *)

\* What a delivery may end in: an error stands for a cancellation only if it is no Exception.
Origins == {<<"handler">>, Cancellation} \cup {<<"exit", k>> : k \in Int}
Errors == {e \in [kind : {"exception", "base"}, of : SUBSET Origins] :
               Cancellation \in e.of => ~IsException(e)}

\* What the errors stand for together.
Of(errors) == UNION {e.of : e \in ToSet(errors)}

\* A stack's recorded errors stand for what was raised since the last one suppressed, and end
\* with the exception that propagates.
StackOK(s) ==
    /\ s = [left |-> s.left, exc |-> s.exc, received |-> s.received, pending |-> s.pending,
            since |-> s.since]
    /\ s.pending = [changed |-> s.pending.changed, errors |-> s.pending.errors]
    /\ s.left \in Int /\ s.exc \in Errors \cup {NoError}
    /\ s.pending.changed \in BOOLEAN /\ s.pending.errors \in Seq(Errors)
    /\ ~s.pending.changed => /\ s.exc = s.received /\ s.since = s.received.of
                             /\ s.pending.errors = <<>>
    /\ s.pending.changed => /\ s.since = Of(s.pending.errors)
                            /\ s.exc = NoError <=> s.pending.errors = <<>>
                            /\ s.exc # NoError => s.exc \in ToSet(s.pending.errors)

StacksOK == \A d \in Deliveries : In(d, "closing") => StackOK(task[d].stack)

-----------------------------------------------------------------------------
(* Bags of copies                                                          *)

LEMMA AddedCopies == ASSUME NEW B, NEW x PROVE DOMAIN Added(B, x) = DOMAIN B \cup {x}
BY DEF Added, (+), SetToBag

LEMMA RemovedCopies ==
    ASSUME NEW B, NEW x
    PROVE  DOMAIN Removed(B, x) \subseteq DOMAIN B /\ DOMAIN B \ {x} \subseteq DOMAIN Removed(B, x)
BY DEF Removed

LEMMA RequeuedCopies ==
    DOMAIN Requeued(stored) = DOMAIN stored \cup {unacked[d] : d \in DOMAIN unacked}
BY DEF Requeued, (+)

LEMMA ForgottenKey ==
    ASSUME NEW f, NEW d
    PROVE  /\ DOMAIN Forget(f, d) = DOMAIN f \ {d}
           /\ \A e \in DOMAIN f \ {d} : Forget(f, d)[e] = f[e]
BY DEF Forget

-----------------------------------------------------------------------------
(* The configuration                                                       *)

LEMMA ConfigIs ==
    ASSUME Typed
    PROVE  /\ config.prefetch \in Nat \ {0} /\ config.policy.retries \in Nat
           /\ config.decodable \subseteq Messages /\ config.waiting \subseteq Messages
           /\ ~config.policy.some => config.policy.retries = 0 /\ ~config.policy.deadLetter
BY BrokerAssumption DEF Typed, DeliveryTyped, IsConfig, NoPolicy

-----------------------------------------------------------------------------
(* What a step does to the deliveries                                      *)

\* Only the delivery d goes on, with the copy it came with.
Moved(d) ==
    /\ DOMAIN task' = DOMAIN task
    /\ task'[d].copy = task[d].copy /\ Delivery(task'[d])
    /\ \A e \in Deliveries \ {d} : task'[e] = task[e]

\* Only the delivery d ends.
Gone(d) ==
    /\ DOMAIN task' = DOMAIN task \ {d}
    /\ \A e \in Deliveries \ {d} : task'[e] = task[e]

LEMMA GoneEffect == ASSUME NEW d, End(d) PROVE Gone(d)
BY ForgottenKey DEF End, Gone, Deliveries

LEMMA MovedEffect ==
    ASSUME NEW d \in Deliveries, NEW t, Delivery(t), t.copy = task[d].copy,
           task' = [task EXCEPT ![d] = t]
    PROVE  Moved(d) /\ task'[d] = t
BY DEF Moved, Deliveries

LEMMA GoOnEffect ==
    ASSUME Typed, NEW d \in Deliveries, NEW pc \in TaskPCs, GoOn(d, pc)
    PROVE  /\ Moved(d)
           /\ task'[d].pc = pc /\ task'[d].stack = task[d].stack /\ task'[d].failed = task[d].failed
<1>0. Delivery(task[d])
  BY DEF Typed, DeliveryTyped
<1>1. PICK t : t = [task[d] EXCEPT !.pc = pc]
  OBVIOUS
<1>2. /\ Delivery(t) /\ t.copy = task[d].copy /\ t.pc = pc
      /\ t.stack = task[d].stack /\ t.failed = task[d].failed
  BY <1>0, <1>1 DEF Delivery
<1>3. task' = [task EXCEPT ![d] = t]
  BY <1>1 DEF GoOn
<1> QED
  BY <1>2, <1>3, MovedEffect

\* A delivery whose handling failed goes on.
LEMMA FailOnEffect ==
    ASSUME Typed, NEW d \in Deliveries, NEW pc \in TaskPCs,
           task' = [task EXCEPT ![d].pc = pc, ![d].failed = TRUE]
    PROVE  Moved(d) /\ task'[d].pc = pc /\ task'[d].failed
<1>0. Delivery(task[d])
  BY DEF Typed, DeliveryTyped
<1>1. PICK t : t = [task[d] EXCEPT !.pc = pc, !.failed = TRUE]
  OBVIOUS
<1>2. Delivery(t) /\ t.copy = task[d].copy /\ t.pc = pc /\ t.failed
  BY <1>0, <1>1 DEF Delivery
<1>3. task' = [task EXCEPT ![d] = t]
  BY <1>1
<1> QED
  BY <1>2, <1>3, MovedEffect

-----------------------------------------------------------------------------
(* Delivering: the broker uses a tag that is not in use                    *)

LEMMA TagIsFree ==
    ASSUME Typed, UnackedOK, channel.open, Cardinality(DOMAIN unacked) < config.prefetch
    PROVE  FreeTag \in Numbers /\ <<channel.id, FreeTag>> \notin Deliveries \cup DOMAIN unacked
<1> DEFINE used == DOMAIN unacked
           tags == [n \in Numbers |-> <<channel.id, n>>]
<1>1. \A n \in Numbers : <<channel.id, n>> \in Deliveries => <<channel.id, n>> \in used
  BY DEF UnackedOK, Usable, MessageChannel
<1>2. ASSUME \A n \in Numbers : <<channel.id, n>> \in Deliveries \cup used PROVE FALSE
  <2>1. used = {channel.id} \X Numbers
    <3>1. used \subseteq {channel.id} \X Numbers
      BY DEF Typed, DeliveryTyped
    <3>2. \A n \in Numbers : <<channel.id, n>> \in used
      BY <1>1, <1>2
    <3> QED
      BY <3>1, <3>2
  <2>2. PICK k \in Nat : k = config.prefetch + 1
    BY ConfigIs
  <2>3. IsFiniteSet(Numbers) /\ Cardinality(Numbers) = config.prefetch + 1
    <3>1. IsFiniteSet(1..k) /\ Cardinality(1..k) = k
      BY FS_Interval
    <3> QED
      BY <2>2, <3>1 DEF Numbers
  <2>4. tags \in [Numbers -> used] /\ \A u \in used : \E n \in Numbers : tags[n] = u
    BY <2>1
  <2>5. \A n, i \in Numbers : tags[n] = tags[i] => n = i
    OBVIOUS
  <2> HIDE DEF tags
  <2>6. tags \in Surjection(Numbers, used) /\ tags \in Injection(Numbers, used)
    BY <2>4, <2>5 DEF Surjection, Injection, IsInjective
  <2>7. Cardinality(used) = Cardinality(Numbers)
    BY <2>3, <2>6, FS_Surjection
  <2> QED
    BY <2>3, <2>7, ConfigIs
<1>3. \E n \in Numbers : <<channel.id, n>> \notin Deliveries \cup used
  BY <1>2
<1> QED
  BY <1>3 DEF FreeTag, Numbers

\* A new delivery d of a copy that waited.
Arrives(d, copy) ==
    /\ d \in {channel.id} \X Numbers /\ d \notin Deliveries /\ d \notin DOMAIN unacked
    /\ copy \in DOMAIN stored /\ copy.place = "queue" /\ channel.open
    /\ DOMAIN stored' \subseteq DOMAIN stored /\ DOMAIN stored \ {copy} \subseteq DOMAIN stored'
    /\ DOMAIN unacked' = DOMAIN unacked \cup {d} /\ unacked'[d] = copy
    /\ \A e \in DOMAIN unacked : unacked'[e] = unacked[e]
    /\ DOMAIN task' = DOMAIN task \cup {d}
    /\ task'[d] = [pc |-> "created", copy |-> copy, stack |-> Stack(0, NoError),
                   due |-> FALSE, failed |-> FALSE]
    /\ \A e \in Deliveries : task'[e] = task[e]
    /\ UNCHANGED <<config, exchange, bound, channel, succeeded, failed>>

LEMMA DeliverEffect ==
    ASSUME Typed, UnackedOK, NEW copy, Deliver(copy)
    PROVE  \E d : Arrives(d, copy)
<1>1. FreeTag \in Numbers /\ <<channel.id, FreeTag>> \notin Deliveries \cup DOMAIN unacked
  BY TagIsFree DEF Deliver
<1>2. PICK d : d = <<channel.id, FreeTag>>
  OBVIOUS
<1>3. d \in {channel.id} \X Numbers /\ d \notin Deliveries /\ d \notin DOMAIN unacked
  BY <1>1, <1>2
<1>4. PICK t : t = [pc |-> "created", copy |-> copy, stack |-> Stack(0, NoError),
                    due |-> FALSE, failed |-> FALSE]
  OBVIOUS
<1>5. /\ copy \in DOMAIN stored /\ copy.place = "queue" /\ channel.open
      /\ stored' = Removed(stored, copy)
      /\ unacked' = Put(unacked, d, copy) /\ task' = Put(task, d, t)
      /\ UNCHANGED <<config, exchange, bound, channel, succeeded, failed>>
  BY <1>2, <1>4 DEF Deliver, Waiting, BagIn, BagToSet
<1>6. DOMAIN stored' \subseteq DOMAIN stored /\ DOMAIN stored \ {copy} \subseteq DOMAIN stored'
  BY <1>5, RemovedCopies
<1>7. /\ DOMAIN unacked' = DOMAIN unacked \cup {d} /\ unacked'[d] = copy
      /\ \A e \in DOMAIN unacked : unacked'[e] = unacked[e]
  BY <1>3, <1>5 DEF Put
<1>8. /\ DOMAIN task' = DOMAIN task \cup {d} /\ task'[d] = t
      /\ \A e \in Deliveries : task'[e] = task[e]
  BY <1>3, <1>5 DEF Put, Deliveries
<1> QED
  BY <1>3, <1>4, <1>5, <1>6, <1>7, <1>8 DEF Arrives

-----------------------------------------------------------------------------
(* The channel is gone                                                     *)

\* The unacked copies are back in the queue; the deliveries that are left are as they were, but
\* for a cancellation that is due.
Requeues ==
    /\ DOMAIN unacked' = {}
    /\ DOMAIN stored' = DOMAIN stored \cup {unacked[d] : d \in DOMAIN unacked}
    /\ DOMAIN task' \subseteq DOMAIN task
    /\ \A d \in DOMAIN task' :
          /\ Delivery(task'[d]) /\ task'[d].pc = task[d].pc /\ task'[d].copy = task[d].copy
          /\ task'[d].stack = task[d].stack /\ task'[d].failed = task[d].failed
    /\ ~channel'.open /\ channel'.id = channel.id
    /\ channel' \in Channels
    /\ UNCHANGED <<config, succeeded, failed>>

LEMMA LostEffect ==
    ASSUME Typed, ChannelLost
    PROVE  /\ DOMAIN unacked' = {}
           /\ DOMAIN stored' = DOMAIN stored \cup {unacked[d] : d \in DOMAIN unacked}
           /\ DOMAIN task' = DOMAIN task
           /\ \A d \in DOMAIN task' :
                 /\ Delivery(task'[d]) /\ task'[d].pc = task[d].pc /\ task'[d].copy = task[d].copy
                 /\ task'[d].stack = task[d].stack /\ task'[d].failed = task[d].failed
<1>1. DOMAIN unacked' = {}
  BY DEF ChannelLost
<1>2. DOMAIN stored' = DOMAIN stored \cup {unacked[d] : d \in DOMAIN unacked}
  BY RequeuedCopies DEF ChannelLost
<1>3. DOMAIN task' = DOMAIN task
  BY DEF ChannelLost, CancelAll, Deliveries
<1>4. ASSUME NEW d \in DOMAIN task
      PROVE  /\ Delivery(task'[d]) /\ task'[d].pc = task[d].pc /\ task'[d].copy = task[d].copy
             /\ task'[d].stack = task[d].stack /\ task'[d].failed = task[d].failed
  <2>1. Delivery(task[d])
    BY DEF Typed, DeliveryTyped, Deliveries
  <2>2. task'[d] = [task[d] EXCEPT !.due = (d[1] = channel.id \/ @)]
    BY DEF ChannelLost, CancelAll, Deliveries
  <2> QED
    BY <2>1, <2>2 DEF Delivery
<1> QED
  BY <1>1, <1>2, <1>3, <1>4

LEMMA LoseChannelEffect == ASSUME Typed, LoseChannel PROVE Requeues
<1>1. ChannelLost /\ channel' = [channel EXCEPT !.open = FALSE, !.consuming = FALSE]
      /\ UNCHANGED <<config, succeeded, failed>>
  BY DEF LoseChannel, Fault, brokerVars
<1>2. channel' \in Channels
      /\ ~channel'.open /\ channel'.id = channel.id
  BY <1>1 DEF Typed, DeliveryTyped, Channels
<1> QED
  BY <1>1, <1>2, LostEffect DEF Requeues

LEMMA RestartEffect == ASSUME Typed, BrokerRestarts PROVE Requeues
<1>1. ChannelLost /\ channel' = [channel EXCEPT !.open = FALSE, !.consuming = FALSE]
      /\ UNCHANGED <<config, succeeded, failed>>
  BY DEF BrokerRestarts
<1>2. channel' \in Channels
      /\ ~channel'.open /\ channel'.id = channel.id
  BY <1>1 DEF Typed, DeliveryTyped, Channels
<1> QED
  BY <1>1, <1>2, LostEffect DEF Requeues

LEMMA CrashEffect == ASSUME Typed, Crash PROVE Requeues
<1>1. /\ channel' = [channel EXCEPT !.open = FALSE, !.known = FALSE, !.consuming = FALSE]
      /\ unacked' = <<>> /\ task' = <<>> /\ stored' = Requeued(stored)
      /\ UNCHANGED <<config, succeeded, failed>>
  BY DEF Crash
<1>2. channel' \in Channels
      /\ ~channel'.open /\ channel'.id = channel.id
  BY <1>1 DEF Typed, DeliveryTyped, Channels
<1> QED
  BY <1>1, <1>2, RequeuedCopies DEF Requeues

LEMMA LeaveEffect == ASSUME Typed, UnackedOK, Leave PROVE Requeues
<1>1. channel' = [channel EXCEPT !.open = FALSE, !.known = FALSE, !.consuming = FALSE]
      /\ UNCHANGED <<config, succeeded, failed>>
  BY DEF Leave
<1>2. channel' \in Channels
      /\ ~channel'.open /\ channel'.id = channel.id
  BY <1>1 DEF Typed, DeliveryTyped, Channels
<1>3. CASE channel.open
  BY <1>1, <1>2, <1>3, LostEffect DEF Requeues, Leave
<1>4. CASE ~channel.open
  <2>1. DOMAIN unacked = {} /\ UNCHANGED <<unacked, stored, task>>
    BY <1>4 DEF UnackedOK, Leave
  <2>2. \A d \in DOMAIN task : Delivery(task[d])
    BY DEF Typed, DeliveryTyped, Deliveries
  <2> QED
    BY <1>1, <1>2, <2>1, <2>2 DEF Requeues
<1> QED
  BY <1>3, <1>4

-----------------------------------------------------------------------------
(* What a step of a delivery's task does                                   *)

\* The task of d moves on or ends; only its ack takes a copy away.
Tasks(d) ==
    /\ d \in Deliveries /\ (Moved(d) \/ Gone(d))
    /\ DOMAIN stored \subseteq DOMAIN stored' /\ DOMAIN stored' \subseteq Copy
    /\ \/ unacked' = unacked
       \/ /\ Gone(d) /\ DOMAIN unacked' = DOMAIN unacked \ {d}
          /\ \A e \in DOMAIN unacked \ {d} : unacked'[e] = unacked[e]
    /\ succeeded \subseteq succeeded' /\ succeeded' \subseteq Messages
    /\ failed' \in [Messages -> Nat] /\ \A m \in Messages : failed[m] <= failed'[m]
    /\ UNCHANGED <<config, exchange, bound, channel>>

\* Nothing but the task changes.
Alone == UNCHANGED <<stored, unacked, succeeded, failed, config, exchange, bound, channel>>

LEMMA AloneTasks ==
    ASSUME Typed, NEW d \in Deliveries, Moved(d) \/ Gone(d), Alone
    PROVE  Tasks(d)
<1>1. \A m \in Messages : failed[m] <= failed[m]
  BY DEF Typed, DeliveryTyped
<1> QED
  BY <1>1 DEF Tasks, Alone, Typed, DeliveryTyped

LEMMA StartEffect ==
    ASSUME Typed, NEW d \in Deliveries, Start(d)
    PROVE  /\ Alone /\ task[d].pc = "created"
           /\ \/ Gone(d)
              \/ /\ Moved(d) /\ task'[d].failed = task[d].failed
                 /\ \/ task'[d].pc = "handling" /\ task[d].copy.message \in config.decodable
                    \/ task'[d].pc = "refused" /\ task[d].copy.message \notin config.decodable
<1>1. Alone /\ task[d].pc = "created"
  BY DEF Start, Alone, brokerVars, In
<1>2. CASE task[d].due
  BY <1>1, <1>2, GoneEffect DEF Start
<1>3. CASE ~task[d].due /\ task[d].copy.message \in config.decodable
  BY <1>1, <1>3, GoOnEffect DEF Start, TaskPCs
<1>4. CASE ~task[d].due /\ task[d].copy.message \notin config.decodable
  BY <1>1, <1>4, GoOnEffect DEF Start, TaskPCs
<1> QED
  BY <1>2, <1>3, <1>4

LEMMA HandleEffect ==
    ASSUME Typed, NEW d \in Deliveries, Handle(d)
    PROVE  /\ Alone /\ Moved(d) /\ task[d].pc = "handling"
           /\ task'[d].pc = "closing" /\ task'[d].failed = task[d].failed
           /\ \E n \in 0..config.resources :
                 \E e \in {NoError, Raised("exception", <<"handler">>)} \cup Cancelled(d) :
                    task'[d].stack = Stack(n, e)
<1>1. Alone /\ task[d].pc = "handling"
  BY DEF Handle, Alone, brokerVars, In
<1>2. PICK n \in 0..config.resources :
         \E e \in {NoError, Raised("exception", <<"handler">>)} \cup Cancelled(d) :
            task' = [task EXCEPT ![d] = [@ EXCEPT !.pc = "closing", !.due = FALSE,
                                                  !.stack = Stack(n, e)]]
  BY DEF Handle
<1>3. PICK e \in {NoError, Raised("exception", <<"handler">>)} \cup Cancelled(d) :
         task' = [task EXCEPT ![d] = [@ EXCEPT !.pc = "closing", !.due = FALSE,
                                               !.stack = Stack(n, e)]]
  BY <1>2
<1>4. PICK s : s = Stack(n, e)
  OBVIOUS
<1>5. PICK t : t = [task[d] EXCEPT !.pc = "closing", !.due = FALSE, !.stack = s]
  OBVIOUS
<1>6. Delivery(task[d])
  BY DEF Typed, DeliveryTyped
<1>7. /\ Delivery(t) /\ t.copy = task[d].copy /\ t.pc = "closing" /\ t.stack = s
      /\ t.failed = task[d].failed
  BY <1>5, <1>6 DEF Delivery, TaskPCs
<1>8. Moved(d) /\ task'[d] = t
  BY <1>3, <1>4, <1>5, <1>7, MovedEffect
<1> QED
  BY <1>1, <1>4, <1>7, <1>8

\* The exit of one resource.
Exits(s, cancels) ==
    {Exited(s, outcome) : outcome \in
        UNION {ExitSync(own, s.exc) \cup ExitAsync(own, s.exc, cancels) :
               own \in {Raised("exception", <<"exit", s.left>>)} \cup ToSet(s.pending.errors)}}

LEMMA CloseNextEffect ==
    ASSUME Typed, NEW d \in Deliveries, CloseNext(d)
    PROVE  /\ Alone /\ Moved(d) /\ task[d].pc = "closing"
           /\ task'[d].pc = "closing" /\ task'[d].failed = task[d].failed
           /\ task'[d].stack \in Exits(task[d].stack, Cancelled(d))
<1>1. Alone /\ task[d].pc = "closing"
  BY DEF CloseNext, Alone, brokerVars, In
<1> DEFINE stack == task[d].stack
<1>2. PICK own \in {Raised("exception", <<"exit", stack.left>>)} \cup ToSet(stack.pending.errors) :
         \E outcome \in ExitSync(own, stack.exc) \cup ExitAsync(own, stack.exc, Cancelled(d)) :
            task' = [task EXCEPT ![d].stack = Exited(stack, outcome), ![d].due = FALSE]
  BY DEF CloseNext
<1>3. PICK outcome \in ExitSync(own, stack.exc) \cup ExitAsync(own, stack.exc, Cancelled(d)) :
         task' = [task EXCEPT ![d].stack = Exited(stack, outcome), ![d].due = FALSE]
  BY <1>2
<1>4. PICK s : s = Exited(stack, outcome)
  OBVIOUS
<1>5. PICK t : t = [task[d] EXCEPT !.stack = s, !.due = FALSE]
  OBVIOUS
<1>6. Delivery(task[d])
  BY DEF Typed, DeliveryTyped
<1>7. /\ Delivery(t) /\ t.copy = task[d].copy /\ t.pc = task[d].pc /\ t.stack = s
      /\ t.failed = task[d].failed
  BY <1>5, <1>6 DEF Delivery
<1>8. task' = [task EXCEPT ![d] = t]
  BY <1>3, <1>4, <1>5
<1>9. Moved(d) /\ task'[d] = t
  BY <1>7, <1>8, MovedEffect
<1>10. s \in Exits(stack, Cancelled(d))
  BY <1>3, <1>4 DEF Exits
<1> QED
  BY <1>1, <1>7, <1>9, <1>10

LEMMA ClosedEffect ==
    ASSUME Typed, NEW d \in Deliveries, Closed(d)
    PROVE  /\ task[d].pc = "closing"
           /\ UNCHANGED <<stored, unacked, succeeded, config, exchange, bound, channel>>
           /\ \/ Gone(d) /\ failed' = failed
              \/ /\ Moved(d) /\ failed' = failed
                 /\ task'[d].pc = "acking" /\ task'[d].failed = task[d].failed
              \/ /\ Moved(d) /\ task'[d].pc = "failing"
                 /\ failed' = [failed EXCEPT ![task[d].copy.message] =
                        IF @ > config.policy.retries THEN @ ELSE @ + 1]
<1>1. /\ task[d].pc = "closing"
      /\ UNCHANGED <<stored, unacked, succeeded, config, exchange, bound, channel>>
  BY DEF Closed, brokerVars, In
<1>2. CASE GoOn(d, "acking") /\ failed' = failed
  BY <1>1, <1>2, GoOnEffect DEF TaskPCs
<1>3. CASE /\ task' = [task EXCEPT ![d].pc = "failing", ![d].failed = TRUE]
           /\ failed' = [failed EXCEPT ![task[d].copy.message] =
                  IF @ > config.policy.retries THEN @ ELSE @ + 1]
  BY <1>1, <1>3, FailOnEffect DEF TaskPCs
<1>4. CASE End(d) /\ failed' = failed
  BY <1>1, <1>4, GoneEffect
<1> QED
  BY <1>2, <1>3, <1>4 DEF Closed

\* What counts a failed handling.
LEMMA FailuresGrow ==
    ASSUME Typed, NEW m \in Messages,
           failed' = [failed EXCEPT ![m] = IF @ > config.policy.retries THEN @ ELSE @ + 1]
    PROVE  /\ failed' \in [Messages -> Nat]
           /\ \A n \in Messages : failed[n] <= failed'[n]
           /\ failed[m] <= config.policy.retries => failed'[m] = failed[m] + 1
<1>1. PICK next \in Nat : next = IF failed[m] > config.policy.retries THEN failed[m]
                                 ELSE failed[m] + 1
  BY ConfigIs DEF Typed, DeliveryTyped
<1>2. failed' = [failed EXCEPT ![m] = next]
  BY <1>1
<1>3. failed \in [Messages -> Nat] /\ config.policy.retries \in Nat
  BY ConfigIs DEF Typed, DeliveryTyped
<1>4. failed' \in [Messages -> Nat] /\ failed'[m] = next
      /\ \A n \in Messages \ {m} : failed'[n] = failed[n]
  BY <1>2, <1>3
<1> QED
  BY <1>1, <1>3, <1>4

\* A delivery is settled at once: nothing takes its copy.
LEMMA FailEffect ==
    ASSUME Typed, NEW d \in Deliveries, Fail(d)
    PROVE  /\ Alone /\ Moved(d) /\ task[d].pc \in {"failing", "refused"}
           /\ task'[d].pc = "acking" /\ task'[d].failed
           /\ ~config.policy.deadLetter
           /\ task[d].pc = "failing" /\ config.policy.some
                => task[d].copy.attempts + 1 > config.policy.retries
<1>1. /\ Alone /\ task[d].pc \in {"failing", "refused"}
      /\ task' = [task EXCEPT ![d].pc = "acking", ![d].failed = TRUE]
      /\ ~config.policy.some \/ Target(d) = "none"
  BY DEF Fail, Alone, brokerVars
<1>2. Moved(d) /\ task'[d].pc = "acking" /\ task'[d].failed
  BY <1>1, FailOnEffect DEF TaskPCs
<1>3. CASE ~config.policy.some
  BY <1>1, <1>2, <1>3, ConfigIs
<1>4. CASE Target(d) = "none"
  <2>1. ~config.policy.deadLetter
        /\ ~(task[d].pc = "failing" /\ task[d].copy.attempts + 1 <= config.policy.retries)
    BY <1>4 DEF Target, In, RetryQueue
  <2>2. task[d].copy.attempts \in Nat /\ config.policy.retries \in Nat
    BY ConfigIs DEF Typed, DeliveryTyped, Delivery, Copy
  <2> QED
    BY <1>1, <1>2, <2>1, <2>2
<1> QED
  BY <1>1, <1>3, <1>4

\* The copy a failed delivery is republished as.
Replacement(d) == CopyOf(Target(d), task[d].copy.message, task[d].copy.attempts + 1)

LEMMA TargetPlaces ==
    ASSUME Typed, NEW d \in Deliveries, Target(d) # "none"
    PROVE  /\ Replacement(d) \in Copy
           /\ Replacement(d).message = task[d].copy.message
           /\ Replacement(d).attempts = task[d].copy.attempts + 1
           /\ Replacement(d).place = Target(d)
           /\ \/ /\ Target(d) = "retry" /\ task[d].pc = "failing"
                 /\ task[d].copy.attempts + 1 <= config.policy.retries
              \/ /\ Target(d) = "dead"
                 /\ task[d].pc = "failing" => task[d].copy.attempts + 1 > config.policy.retries
<1>1. task[d].copy.message \in Messages /\ task[d].copy.attempts \in Nat
      /\ config.policy.retries \in Nat
  BY ConfigIs DEF Typed, DeliveryTyped, Delivery, Copy
<1>2. \/ /\ Target(d) = "retry" /\ task[d].pc = "failing"
         /\ task[d].copy.attempts + 1 <= config.policy.retries
      \/ /\ Target(d) = "dead"
         /\ ~(task[d].pc = "failing" /\ task[d].copy.attempts + 1 <= config.policy.retries)
  BY DEF Target, In, RetryQueue
<1>3. PICK next \in Nat : next = task[d].copy.attempts + 1
  BY <1>1
<1>4. Target(d) \in Places
  BY <1>2 DEF Places
<1>5. Replacement(d) = [place |-> Target(d), message |-> task[d].copy.message, attempts |-> next]
  BY <1>3 DEF Replacement, CopyOf
<1>6. /\ Replacement(d) \in Copy /\ Replacement(d).message = task[d].copy.message
      /\ Replacement(d).attempts = next /\ Replacement(d).place = Target(d)
  BY <1>1, <1>4, <1>5 DEF Copy
<1> QED
  BY <1>1, <1>2, <1>3, <1>6

LEMMA RepublishEffect ==
    ASSUME Typed, NEW d \in Deliveries, Republish(d)
    PROVE  /\ task[d].pc \in {"failing", "refused"} /\ Target(d) # "none"
           /\ UNCHANGED <<unacked, succeeded, failed, config, exchange, bound, channel>>
           /\ \/ Gone(d) /\ stored' = stored
              \/ /\ Moved(d) /\ task'[d].pc = "confirming" /\ task'[d].failed
                 /\ DOMAIN stored' = DOMAIN stored \cup {Replacement(d)}
<1>1. /\ task[d].pc \in {"failing", "refused"} /\ Target(d) # "none"
      /\ UNCHANGED <<unacked, succeeded, failed, config, exchange, bound, channel>>
  BY DEF Republish
<1>2. CASE ~Usable(d)
  BY <1>1, <1>2, GoneEffect DEF Republish
<1>3. CASE Usable(d)
  <2>1. /\ stored' = Added(stored, Replacement(d))
        /\ task' = [task EXCEPT ![d].pc = "confirming", ![d].failed = TRUE]
    BY <1>3 DEF Republish, Replacement
  <2>2. Moved(d) /\ task'[d].pc = "confirming" /\ task'[d].failed
    BY <2>1, FailOnEffect DEF TaskPCs
  <2> QED
    BY <1>1, <2>1, <2>2, AddedCopies
<1> QED
  BY <1>2, <1>3

LEMMA RepublishedEffect ==
    ASSUME Typed, NEW d \in Deliveries, Republished(d)
    PROVE  /\ Alone /\ task[d].pc = "confirming"
           /\ \/ Gone(d)
              \/ Moved(d) /\ task'[d].pc = "acking" /\ task'[d].failed = task[d].failed
<1>1. Alone /\ task[d].pc = "confirming"
  BY DEF Republished, Alone, brokerVars, In
<1>2. CASE Usable(d)
  BY <1>1, <1>2, GoOnEffect DEF Republished, TaskPCs
<1>3. CASE ~Usable(d)
  BY <1>1, <1>3, GoneEffect DEF Republished
<1> QED
  BY <1>2, <1>3

LEMMA AckEffect ==
    ASSUME Typed, NEW d \in Deliveries, Ack(d)
    PROVE  /\ task[d].pc = "acking" /\ Gone(d)
           /\ UNCHANGED <<stored, failed, config, exchange, bound, channel>>
           /\ ~Usable(d) => unacked' = unacked /\ succeeded' = succeeded
           /\ Usable(d) => /\ DOMAIN unacked' = DOMAIN unacked \ {d}
                           /\ \A e \in DOMAIN unacked \ {d} : unacked'[e] = unacked[e]
           /\ Usable(d) /\ task[d].failed => succeeded' = succeeded
           /\ Usable(d) /\ ~task[d].failed => succeeded' = succeeded \cup {task[d].copy.message}
<1>1. /\ task[d].pc = "acking" /\ Gone(d)
      /\ UNCHANGED <<stored, failed, config, exchange, bound, channel>>
  BY GoneEffect DEF Ack, brokerVars, In
<1>2. CASE ~Usable(d)
  BY <1>1, <1>2 DEF Ack
<1>3. CASE Usable(d)
  <2>1. d = <<MessageChannel(d), d[2]>>
    BY DEF MessageChannel, Typed, DeliveryTyped
  <2>2. unacked' = Forget(unacked, d)
    BY <1>3, <2>1 DEF Ack
  <2>3. /\ task[d].failed => succeeded' = succeeded
        /\ ~task[d].failed => succeeded' = succeeded \cup {task[d].copy.message}
    BY <1>3 DEF Ack
  <2> QED
    BY <1>1, <1>3, <2>2, <2>3, ForgottenKey
<1> QED
  BY <1>2, <1>3

\* Each step of a delivery's task is one of these.
LEMMA TaskStepTasks ==
    ASSUME Typed, NEW d \in Deliveries, TaskStep(d)
    PROVE  Tasks(d)
<1>1. CASE Start(d)
  BY <1>1, StartEffect, AloneTasks
<1>2. CASE Handle(d)
  BY <1>2, HandleEffect, AloneTasks
<1>3. CASE CloseNext(d)
  BY <1>3, CloseNextEffect, AloneTasks
<1>4. CASE Closed(d)
  <2>1. task[d].copy.message \in Messages
    BY DEF Typed, DeliveryTyped, Delivery, Copy
  <2>2. /\ Moved(d) \/ Gone(d)
        /\ UNCHANGED <<stored, unacked, succeeded, config, exchange, bound, channel>>
        /\ \/ failed' = failed
           \/ failed' = [failed EXCEPT ![task[d].copy.message] =
                  IF @ > config.policy.retries THEN @ ELSE @ + 1]
    BY <1>4, ClosedEffect
  <2>3. failed' \in [Messages -> Nat] /\ \A m \in Messages : failed[m] <= failed'[m]
    <3>1. CASE failed' = failed
      BY <3>1 DEF Typed, DeliveryTyped
    <3> QED
      BY <2>1, <2>2, <3>1, FailuresGrow
  <2> QED
    BY <2>2, <2>3 DEF Tasks, Typed, DeliveryTyped
<1>5. CASE Fail(d)
  BY <1>5, FailEffect, AloneTasks
<1>6. CASE Republish(d)
  <2>1. /\ Moved(d) \/ Gone(d)
        /\ UNCHANGED <<unacked, succeeded, failed, config, exchange, bound, channel>>
        /\ stored' = stored \/ DOMAIN stored' = DOMAIN stored \cup {Replacement(d)}
        /\ Target(d) # "none"
    BY <1>6, RepublishEffect
  <2>2. Replacement(d) \in Copy
    BY <2>1, TargetPlaces
  <2>3. \A m \in Messages : failed[m] <= failed[m]
    BY DEF Typed, DeliveryTyped
  <2> QED
    BY <2>1, <2>2, <2>3 DEF Tasks, Typed, DeliveryTyped
<1>7. CASE Republished(d)
  BY <1>7, RepublishedEffect, AloneTasks
<1>8. CASE Ack(d)
  <2>1. /\ Gone(d) /\ UNCHANGED <<stored, failed, config, exchange, bound, channel>>
        /\ succeeded' = succeeded \/ succeeded' = succeeded \cup {task[d].copy.message}
        /\ \/ unacked' = unacked
           \/ /\ DOMAIN unacked' = DOMAIN unacked \ {d}
              /\ \A e \in DOMAIN unacked \ {d} : unacked'[e] = unacked[e]
    BY <1>8, AckEffect
  <2>2. task[d].copy.message \in Messages
    BY DEF Typed, DeliveryTyped, Delivery, Copy
  <2>3. \A m \in Messages : failed[m] <= failed[m]
    BY DEF Typed, DeliveryTyped
  <2> QED
    BY <2>1, <2>2, <2>3 DEF Tasks, Typed, DeliveryTyped
<1> QED
  BY <1>1, <1>2, <1>3, <1>4, <1>5, <1>6, <1>7, <1>8 DEF TaskStep

-----------------------------------------------------------------------------
(* What every other step does to the deliveries                            *)

\* Copies are published or move on to the queue; a channel may be opened, or found lost.
Rests ==
    /\ UNCHANGED <<config, unacked, task, succeeded, failed>>
    /\ DOMAIN stored' \subseteq Copy
    /\ \A c \in DOMAIN stored :
          \/ c \in DOMAIN stored'
          \/ /\ c.place = "retry"
             /\ \E b \in DOMAIN stored' :
                   b.place = "queue" /\ b.message = c.message /\ b.attempts = c.attempts
    /\ \A c \in DOMAIN stored' \ DOMAIN stored :
          /\ c.place = "queue"
          /\ \/ c.attempts = 0
             \/ \E b \in DOMAIN stored :
                   b.place = "retry" /\ b.message = c.message /\ b.attempts = c.attempts
    /\ channel' \in Channels /\ (channel'.open => channel'.known)
    /\ \/ channel'.id = channel.id /\ channel'.open = channel.open
       \/ ~channel.open /\ channel'.id = channel.id + 1

LEMMA SameStoredRests ==
    ASSUME Typed, UNCHANGED <<stored, config, unacked, task, succeeded, failed>>,
           channel' \in Channels, channel'.open => channel'.known,
           \/ channel'.id = channel.id /\ channel'.open = channel.open
           \/ ~channel.open /\ channel'.id = channel.id + 1
    PROVE  Rests
BY DEF Rests, Typed, DeliveryTyped

LEMMA ExpireRests ==
    ASSUME Typed, UnackedOK, NEW copy, Expire(copy), UNCHANGED deliveryVars
    PROVE  Rests
<1>1. /\ copy \in DOMAIN stored /\ copy.place = "retry"
      /\ stored' = Added(Removed(stored, copy), [copy EXCEPT !.place = "queue"])
      /\ config' = config
  BY DEF Expire, Waiting, BagIn, BagToSet
<1>2. PICK c : c = [copy EXCEPT !.place = "queue"]
  OBVIOUS
<1>3. copy \in Copy
  BY <1>1 DEF Typed, DeliveryTyped
<1>4. /\ c \in Copy /\ c.place = "queue" /\ c.message = copy.message /\ c.attempts = copy.attempts
  BY <1>2, <1>3 DEF Copy, Places
<1>5. PICK rest : rest = Removed(stored, copy)
  OBVIOUS
<1>6. DOMAIN rest \subseteq DOMAIN stored /\ DOMAIN stored \ {copy} \subseteq DOMAIN rest
  BY <1>5, RemovedCopies
<1>7. DOMAIN stored' = DOMAIN rest \cup {c}
  BY <1>1, <1>2, <1>5, AddedCopies
<1>8. channel' \in Channels /\ channel' = channel /\ (channel'.open => channel'.known)
      /\ UNCHANGED <<config, unacked, task, succeeded, failed>>
  BY <1>1 DEF deliveryVars, Typed, DeliveryTyped, UnackedOK
<1>9. DOMAIN stored' \subseteq Copy
  BY <1>4, <1>6, <1>7 DEF Typed, DeliveryTyped
<1> QED
  BY <1>1, <1>4, <1>6, <1>7, <1>8, <1>9 DEF Rests

LEMMA PublishEffect ==
    ASSUME Typed, NEW m \in Messages, Publish(m)
    PROVE  /\ UNCHANGED <<config, exchange, bound>>
           /\ \/ stored' = stored
              \/ DOMAIN stored' = DOMAIN stored \cup {CopyOf("queue", m, 0)}
BY AddedCopies DEF Publish

LEMMA NewCopy ==
    ASSUME NEW m \in Messages
    PROVE  /\ CopyOf("queue", m, 0) \in Copy /\ CopyOf("queue", m, 0).place = "queue"
           /\ CopyOf("queue", m, 0).attempts = 0 /\ CopyOf("queue", m, 0).message = m
BY DEF CopyOf, Copy, Places

LEMMA PublishingRests ==
    ASSUME Typed, UnackedOK, PublisherNext, UNCHANGED deliveryVars
    PROVE  Rests
<1>1. /\ channel' = channel /\ channel \in Channels /\ (channel.open => channel.known)
      /\ UNCHANGED <<unacked, task, succeeded, failed>>
  BY DEF deliveryVars, Typed, DeliveryTyped, UnackedOK
<1>2. CASE UNCHANGED <<stored, config>>
  BY <1>1, <1>2, SameStoredRests
<1>3. ASSUME NEW m \in Messages, Publish(m) PROVE Rests
  <2>1. PICK c : c = CopyOf("queue", m, 0)
    OBVIOUS
  <2>2. c \in Copy /\ c.place = "queue" /\ c.attempts = 0
    BY <2>1, NewCopy
  <2>3. config' = config /\ (stored' = stored \/ DOMAIN stored' = DOMAIN stored \cup {c})
    BY <1>3, <2>1, PublishEffect
  <2> QED
    BY <1>1, <2>2, <2>3 DEF Rests, Typed, DeliveryTyped
<1>4. (\E m \in Messages : Publish(m)) \/ UNCHANGED <<stored, config>>
  BY DEF PublisherNext, EmitStep, LinkStep, StartEmit, DeclareExchange, Declared, Confirm,
         RetryEmit, PublisherLost, PublisherOpened, LosePublisher, PublisherExit, brokerVars
<1> QED
  BY <1>2, <1>3, <1>4

LEMMA ConsumerRests ==
    ASSUME Typed, UnackedOK, ConsumerLost \/ ConsumerOpened \/ Enter \/ Exit
    PROVE  Rests
<1>0. channel \in Channels /\ (channel.open => channel.known)
  BY DEF Typed, DeliveryTyped, UnackedOK
<1>1. UNCHANGED <<stored, config, unacked, task, succeeded, failed>>
  BY DEF ConsumerLost, ConsumerOpened, Enter, Exit, brokerVars
<1>2. CASE ConsumerLost
  <2>1. channel' = [channel EXCEPT !.known = FALSE] /\ ~channel.open
    BY <1>2 DEF ConsumerLost
  <2>2. channel' \in Channels /\ ~channel'.open /\ channel'.id = channel.id
    BY <1>0, <2>1 DEF Channels
  <2>3. channel'.open = channel.open
    BY <1>0, <2>1 DEF Channels
  <2> QED
    BY <1>1, <2>2, <2>3, SameStoredRests
<1>3. CASE ConsumerOpened
  <2>1. /\ ~channel.known
        /\ channel' = [id |-> channel.id + 1, open |-> TRUE, known |-> TRUE, consuming |-> Resumes]
    BY <1>3 DEF ConsumerOpened
  <2>2. PICK next \in Nat : next = channel.id + 1
    BY <1>0 DEF Channels
  <2>3. channel' = [id |-> next, open |-> TRUE, known |-> TRUE, consuming |-> TRUE]
    BY <2>1, <2>2 DEF Resumes
  <2>4. channel' \in Channels /\ channel'.known /\ channel'.id = next
    BY <2>3 DEF Channels
  <2> QED
    BY <1>0, <1>1, <2>1, <2>2, <2>4, SameStoredRests
<1>4. CASE Enter
  BY <1>0, <1>1, <1>4, SameStoredRests DEF Enter
<1>5. CASE Exit
  <2>1. channel' = [channel EXCEPT !.consuming = FALSE]
    BY <1>5 DEF Exit
  <2>2. channel' \in Channels /\ channel'.open = channel.open /\ channel'.known = channel.known
        /\ channel'.id = channel.id
    BY <1>0, <2>1 DEF Channels
  <2> QED
    BY <1>0, <1>1, <2>2, SameStoredRests
<1> QED
  BY <1>2, <1>3, <1>4, <1>5

LEMMA StutterRests ==
    ASSUME Typed, UnackedOK, UNCHANGED messagingVars
    PROVE  Rests
<1>1. /\ channel' = channel /\ channel \in Channels /\ (channel.open => channel.known)
      /\ UNCHANGED <<stored, config, unacked, task, succeeded, failed>>
  BY DEF messagingVars, brokerVars, deliveryVars, Typed, DeliveryTyped, UnackedOK
<1> QED
  BY <1>1, SameStoredRests

\* Every step is one of these.
LEMMA StepKinds ==
    ASSUME Typed, UnackedOK, [MessagingNext]_messagingVars
    PROVE  \/ Rests \/ Requeues
           \/ \E copy, d : Arrives(d, copy)
           \/ \E d \in Deliveries : TaskStep(d)
<1>1. CASE UNCHANGED messagingVars
  BY <1>1, StutterRests
<1>2. CASE Publishing
  BY <1>2, PublishingRests DEF Publishing
<1>3. CASE Expiring
  BY <1>3, ExpireRests DEF Expiring
<1>4. CASE BrokerRestarts
  BY <1>4, RestartEffect
<1>5. CASE Delivering
  <2>1. DeliveryNext
    BY <1>5 DEF Delivering
  <2>2. CASE \E copy \in BagToSet(stored) : Deliver(copy)
    BY <2>2, DeliverEffect
  <2>3. CASE ConsumerStep
    BY <2>3, ConsumerRests, LeaveEffect DEF ConsumerStep
  <2>4. CASE LoseChannel
    BY <2>4, LoseChannelEffect
  <2>5. CASE Exit
    BY <2>5, ConsumerRests
  <2>6. CASE Crash
    BY <2>6, CrashEffect
  <2> QED
    BY <2>1, <2>2, <2>3, <2>4, <2>5, <2>6 DEF DeliveryNext
<1> QED
  BY <1>1, <1>2, <1>3, <1>4, <1>5 DEF MessagingNext

-----------------------------------------------------------------------------
(* Types, and what is unacked                                              *)

LEMMA DeliveryTypedStep ==
    ASSUME Typed, UnackedOK, [MessagingNext]_messagingVars
    PROVE  DeliveryTyped'
<1>0. channel.id \in Nat
  BY DEF Typed, DeliveryTyped, Channels
<1>1. CASE Rests
  <2>1. Numbers' = Numbers
    BY <1>1 DEF Rests, Numbers
  <2>2. /\ DOMAIN unacked' \subseteq {channel'.id} \X Numbers
        /\ \A d \in DOMAIN unacked' : unacked'[d] \in Copy /\ unacked'[d].place = "queue"
    BY <1>1 DEF Rests, Typed, DeliveryTyped, UnackedOK
  <2>3. channel'.id = channel.id \/ channel'.id = channel.id + 1
    BY <1>1 DEF Rests
  <2>4. 0..channel.id \subseteq 0..channel'.id
    BY <1>0, <2>3
  <2>5. Deliveries' \subseteq (0..channel'.id) \X Numbers /\ \A d \in Deliveries' : Delivery(task'[d])
    BY <1>1, <2>4 DEF Rests, Typed, DeliveryTyped, Deliveries
  <2>6. /\ config' \in Configurations /\ DOMAIN stored' \subseteq Copy /\ channel' \in Channels
        /\ succeeded' \subseteq Messages /\ failed' \in [Messages -> Nat]
    BY <1>1 DEF Rests, Typed, DeliveryTyped
  <2> QED
    BY <2>1, <2>2, <2>5, <2>6 DEF DeliveryTyped, Delivery
<1>2. CASE Requeues
  <2>1. Numbers' = Numbers /\ channel'.id = channel.id /\ channel' \in Channels
    BY <1>2 DEF Requeues, Numbers
  <2>2. DOMAIN unacked' = {}
    BY <1>2 DEF Requeues
  <2>3. DOMAIN stored' \subseteq Copy
    BY <1>2 DEF Requeues, Typed, DeliveryTyped
  <2>4. Deliveries' \subseteq (0..channel'.id) \X Numbers /\ \A d \in Deliveries' : Delivery(task'[d])
    BY <1>2, <2>1 DEF Requeues, Typed, DeliveryTyped, Deliveries
  <2>5. config' \in Configurations /\ succeeded' \subseteq Messages /\ failed' \in [Messages -> Nat]
    BY <1>2 DEF Requeues, Typed, DeliveryTyped
  <2> QED
    BY <2>1, <2>2, <2>3, <2>4, <2>5 DEF DeliveryTyped, Delivery
<1>3. ASSUME NEW copy, NEW d, Arrives(d, copy) PROVE DeliveryTyped'
  <2>1. Numbers' = Numbers /\ channel' = channel
    BY <1>3 DEF Arrives, Numbers
  <2>2. copy \in Copy /\ copy.place = "queue" /\ DOMAIN stored' \subseteq Copy
    BY <1>3 DEF Arrives, Typed, DeliveryTyped
  <2>3. /\ DOMAIN unacked' \subseteq {channel.id} \X Numbers
        /\ \A e \in DOMAIN unacked' : unacked'[e] \in Copy /\ unacked'[e].place = "queue"
    BY <1>3, <2>2 DEF Arrives, Typed, DeliveryTyped
  <2>4. d \in (0..channel.id) \X Numbers
    BY <1>0, <1>3 DEF Arrives
  <2>5. Deliveries' \subseteq (0..channel.id) \X Numbers
    BY <1>3, <2>4 DEF Arrives, Typed, DeliveryTyped, Deliveries
  <2>6. Delivery(task'[d])
    <3>1. PICK s : s = Stack(0, NoError)
      OBVIOUS
    <3>2. task'[d] = [pc |-> "created", copy |-> copy, stack |-> s, due |-> FALSE, failed |-> FALSE]
      BY <1>3, <3>1 DEF Arrives
    <3> QED
      BY <2>2, <3>2 DEF Delivery, TaskPCs
  <2>7. \A e \in Deliveries' : Delivery(task'[e])
    BY <1>3, <2>6 DEF Arrives, Typed, DeliveryTyped, Deliveries
  <2>8. /\ config' \in Configurations /\ channel' \in Channels
        /\ succeeded' \subseteq Messages /\ failed' \in [Messages -> Nat]
    BY <1>3 DEF Arrives, Typed, DeliveryTyped
  <2> QED
    BY <2>1, <2>2, <2>3, <2>5, <2>7, <2>8 DEF DeliveryTyped, Delivery
<1>4. ASSUME NEW d \in Deliveries, TaskStep(d) PROVE DeliveryTyped'
  <2>0. Tasks(d)
    BY <1>4, TaskStepTasks
  <2>1. Numbers' = Numbers /\ channel' = channel /\ DOMAIN stored' \subseteq Copy
    BY <2>0 DEF Tasks, Numbers
  <2>2. /\ DOMAIN unacked' \subseteq {channel.id} \X Numbers
        /\ \A e \in DOMAIN unacked' : unacked'[e] \in Copy /\ unacked'[e].place = "queue"
    BY <2>0 DEF Tasks, Typed, DeliveryTyped
  <2>3. DOMAIN task' \subseteq Deliveries /\ \A e \in DOMAIN task' : Delivery(task'[e])
    BY <2>0 DEF Tasks, Moved, Gone, Typed, DeliveryTyped, Deliveries
  <2>4. /\ config' \in Configurations /\ channel' \in Channels
        /\ succeeded' \subseteq Messages /\ failed' \in [Messages -> Nat]
    BY <2>0 DEF Tasks, Typed, DeliveryTyped
  <2> QED
    BY <2>1, <2>2, <2>3, <2>4 DEF DeliveryTyped, Delivery, Typed, Deliveries
<1> QED
  BY <1>1, <1>2, <1>3, <1>4, StepKinds

\* The steps of an emit and of the publisher's link.
Emits == [pc : EmitPCs, open : BOOLEAN]

LEMMA ChannelGoneTyped ==
    ASSUME emits \in [Messages -> Emits]
    PROVE  /\ ChannelGone(emits) \in [Messages -> Emits]
           /\ \A m \in Messages : /\ ChannelGone(emits)[m].pc = emits[m].pc
                                  /\ ~ChannelGone(emits)[m].open
BY DEF ChannelGone, Emits

LEMMA EmitMoves ==
    ASSUME PublisherTyped, NEW m \in Messages, NEW pc \in EmitPCs, Go(m, pc)
    PROVE  /\ emits' \in [Messages -> Emits] /\ emits'[m].pc = pc
           /\ \A n \in Messages : n # m => emits'[n] = emits[n]
           /\ \A n \in Messages : emits'[n].open = emits[n].open
BY DEF PublisherTyped, Go, Emits

\* What a publisher's step does to the emits.
LEMMA StartEmitEffect ==
    ASSUME PublisherTyped, NEW m \in Messages, StartEmit(m)
    PROVE  /\ emits' \in [Messages -> Emits]
           /\ emits'[m].pc \in {"failed", "declaring", "publishing"} /\ emits'[m].open = link.open
           /\ \A n \in Messages : n # m => emits'[n] = emits[n]
           /\ UNCHANGED <<brokerVars, link>>
<1>1. PICK pc \in {"failed", "declaring", "publishing"} :
         emits' = [emits EXCEPT ![m] = [pc |-> pc, open |-> link.open]]
  BY DEF StartEmit
<1>2. [pc |-> pc, open |-> link.open] \in Emits
  BY DEF Emits, EmitPCs, PublisherTyped
<1>3. emits \in [Messages -> Emits]
  BY DEF PublisherTyped, Emits
<1> QED
  BY <1>1, <1>2, <1>3 DEF StartEmit

LEMMA PublishEmits ==
    ASSUME PublisherTyped, NEW m \in Messages, Publish(m)
    PROVE  /\ emits' \in [Messages -> Emits] /\ emits'[m].pc \in {"failed", "confirming"}
           /\ \A n \in Messages : n # m => emits'[n].pc = emits[n].pc
           /\ \/ link' = link /\ \A n \in Messages : emits'[n].open = emits[n].open
              \/ \A n \in Messages : ~emits'[n].open
           /\ link' \in [open : BOOLEAN, known : BOOLEAN] /\ (link'.open => link.open)
           /\ emits'[m].pc = "confirming" =>
                 /\ ~Returned
                 /\ (bound => DOMAIN stored' = DOMAIN stored \cup {CopyOf("queue", m, 0)})
                 /\ emits[m].open
           /\ UNCHANGED <<config, exchange, bound>>
<1>0. /\ emits \in [Messages -> Emits] /\ link \in [open : BOOLEAN, known : BOOLEAN]
      /\ UNCHANGED <<config, exchange, bound>>
  BY DEF PublisherTyped, Emits, Publish
<1>1. CASE emits[m].open /\ ~exchange
  <2>1. PICK e : e = ChannelGone(emits)
    OBVIOUS
  <2>2. e \in [Messages -> Emits] /\ \A n \in Messages : e[n].pc = emits[n].pc /\ ~e[n].open
    BY <1>0, <2>1, ChannelGoneTyped
  <2>3. emits' = [e EXCEPT ![m].pc = "failed"]
    BY <1>1, <2>1 DEF Publish
  <2>4. /\ emits' \in [Messages -> Emits] /\ emits'[m].pc = "failed"
        /\ \A n \in Messages : ~emits'[n].open
        /\ \A n \in Messages : n # m => emits'[n].pc = emits[n].pc
    BY <2>2, <2>3 DEF Emits, EmitPCs
  <2>5. link' = [link EXCEPT !.open = FALSE]
    BY <1>1 DEF Publish
  <2>6. link' \in [open : BOOLEAN, known : BOOLEAN] /\ ~link'.open
    BY <1>0, <2>5
  <2> QED
    BY <1>0, <2>4, <2>6
<1>2. CASE ~(emits[m].open /\ ~exchange)
  <2>1. PICK pc \in {"failed", "confirming"} :
           pc = IF ~(emits[m].open /\ exchange) \/ Returned THEN "failed" ELSE "confirming"
    OBVIOUS
  <2>2. Go(m, pc) /\ link' = link
    BY <1>2, <2>1 DEF Publish, Go
  <2>3. /\ emits' \in [Messages -> Emits] /\ emits'[m].pc = pc
        /\ \A n \in Messages : n # m => emits'[n].pc = emits[n].pc
        /\ \A n \in Messages : emits'[n].open = emits[n].open
    BY <2>2, EmitMoves DEF EmitPCs
  <2>4. pc = "confirming" => ~Returned /\ emits[m].open /\ exchange
    BY <2>1
  <2>5. pc = "confirming" /\ bound => stored' = Added(stored, CopyOf("queue", m, 0))
    BY <2>4 DEF Publish
  <2>6. pc = "confirming" /\ bound => DOMAIN stored' = DOMAIN stored \cup {CopyOf("queue", m, 0)}
    BY <2>5, AddedCopies
  <2>7. emits'[m].pc = "confirming" =>
           /\ ~Returned /\ emits[m].open
           /\ (bound => DOMAIN stored' = DOMAIN stored \cup {CopyOf("queue", m, 0)})
    BY <2>3, <2>4, <2>6
  <2> QED
    BY <1>0, <2>2, <2>3, <2>7
<1> QED
  BY <1>1, <1>2

LEMMA DeclareTopologyEffect ==
    ASSUME Typed, DeclareTopology
    PROVE  /\ exchange' \in BOOLEAN /\ bound' \in BOOLEAN /\ (bound => bound')
           /\ config.binds => bound'
BY BrokerAssumption DEF Typed, PublisherTyped, DeliveryTyped, IsConfig, DeclareTopology

\* No step but a restart of the broker takes the queue's binding away.
LEMMA BoundStays ==
    ASSUME Typed, [MessagingNext]_messagingVars, ~BrokerRestarts
    PROVE  exchange' \in BOOLEAN /\ bound' \in BOOLEAN /\ (bound => bound') /\ config' = config
<1>0. exchange \in BOOLEAN /\ bound \in BOOLEAN
  BY DEF Typed, PublisherTyped
<1>1. CASE UNCHANGED messagingVars \/ Expiring
  BY <1>0, <1>1 DEF messagingVars, brokerVars, Expiring, Expire
<1>2. CASE Publishing
  <2>1. CASE PublisherOpened
    BY <1>0, <2>1, DeclareTopologyEffect DEF PublisherOpened
  <2>2. ASSUME NEW m \in Messages, DeclareExchange(m)
        PROVE  exchange' \in BOOLEAN /\ UNCHANGED <<bound, config>>
    BY <1>0, <2>2 DEF DeclareExchange
  <2>3. ASSUME NEW m \in Messages, EmitStep(m), ~DeclareExchange(m)
        PROVE  UNCHANGED <<exchange, bound, config>>
    BY <2>3 DEF EmitStep, StartEmit, Declared, Publish, Confirm, RetryEmit, brokerVars
  <2>4. CASE PublisherLost \/ LosePublisher \/ PublisherExit
    BY <1>0, <2>4 DEF PublisherLost, LosePublisher, PublisherExit, brokerVars
  <2> QED
    BY <1>0, <1>2, <2>1, <2>2, <2>3, <2>4 DEF Publishing, PublisherNext, LinkStep
<1>3. CASE Delivering
  <2>1. CASE \E copy \in BagToSet(stored) : Deliver(copy)
    BY <1>0, <2>1 DEF Deliver
  <2>2. CASE \E d \in Deliveries : TaskStep(d)
    BY <1>0, <2>2, TaskStepTasks DEF Tasks
  <2>3. CASE ConsumerOpened
    BY <2>3, DeclareTopologyEffect DEF ConsumerOpened
  <2>4. CASE ConsumerLost \/ Enter \/ Leave \/ LoseChannel \/ Exit \/ Crash
    BY <1>0, <2>4 DEF ConsumerLost, Enter, Leave, LoseChannel, Exit, Crash, brokerVars
  <2> QED
    BY <1>3, <2>1, <2>2, <2>3, <2>4 DEF Delivering, DeliveryNext, ConsumerStep
<1> QED
  BY <1>1, <1>2, <1>3 DEF MessagingNext

LEMMA RestartEmits ==
    ASSUME PublisherTyped, BrokerRestarts
    PROVE  /\ emits' \in [Messages -> Emits]
           /\ \A m \in Messages : emits'[m].pc = emits[m].pc /\ ~emits'[m].open
           /\ link' \in [open : BOOLEAN, known : BOOLEAN] /\ ~link'.open
           /\ exchange' \in BOOLEAN /\ bound' \in BOOLEAN /\ config' = config
<1>1. emits \in [Messages -> Emits] /\ link \in [open : BOOLEAN, known : BOOLEAN]
  BY DEF PublisherTyped, Emits
<1>2. emits' = ChannelGone(emits) /\ link' = [link EXCEPT !.open = FALSE]
      /\ exchange' = FALSE /\ bound' = FALSE /\ config' = config
  BY DEF BrokerRestarts
<1>3. link' \in [open : BOOLEAN, known : BOOLEAN] /\ ~link'.open
  BY <1>1, <1>2
<1> QED
  BY <1>1, <1>2, <1>3, ChannelGoneTyped

\* A step of the link alone leaves each emit where it is.
LEMMA LinkEmits ==
    ASSUME PublisherTyped, LinkStep \/ LosePublisher \/ PublisherExit
    PROVE  /\ emits' \in [Messages -> Emits]
           /\ \A m \in Messages : emits'[m].pc = emits[m].pc
           /\ link' \in [open : BOOLEAN, known : BOOLEAN]
           /\ \/ PublisherOpened /\ emits' = emits
              \/ ~link'.open /\ ~link.open /\ emits' = emits
              \/ ~link'.open /\ \A m \in Messages : ~emits'[m].open
<1>1. emits \in [Messages -> Emits] /\ link \in [open : BOOLEAN, known : BOOLEAN]
  BY DEF PublisherTyped, Emits
<1>2. CASE PublisherLost
  <2>1. ~link.open /\ link' = [link EXCEPT !.known = FALSE] /\ emits' = emits
    BY <1>2 DEF PublisherLost
  <2>2. link' \in [open : BOOLEAN, known : BOOLEAN] /\ ~link'.open
    BY <1>1, <2>1
  <2> QED
    BY <1>1, <2>1, <2>2
<1>3. CASE PublisherOpened
  <2>1. link' = [open |-> TRUE, known |-> TRUE] /\ emits' = emits
    BY <1>3 DEF PublisherOpened
  <2> QED
    BY <1>1, <1>3, <2>1
<1>4. CASE LosePublisher
  <2>1. link' = [link EXCEPT !.open = FALSE] /\ emits' = ChannelGone(emits)
    BY <1>4 DEF LosePublisher
  <2>2. link' \in [open : BOOLEAN, known : BOOLEAN] /\ ~link'.open
    BY <1>1, <2>1
  <2> QED
    BY <1>1, <2>1, <2>2, ChannelGoneTyped
<1>5. CASE PublisherExit
  <2>1. link' = [open |-> FALSE, known |-> FALSE] /\ emits' = ChannelGone(emits)
    BY <1>5 DEF PublisherExit
  <2> QED
    BY <1>1, <2>1, ChannelGoneTyped
<1> QED
  BY <1>2, <1>3, <1>4, <1>5 DEF LinkStep

\* A step of one emit, other than its publish.
LEMMA EmitStepEffect ==
    ASSUME PublisherTyped, NEW m \in Messages, EmitStep(m), ~Publish(m)
    PROVE  /\ emits' \in [Messages -> Emits] /\ link' = link
           /\ \A n \in Messages : n # m => emits'[n] = emits[n]
           /\ emits'[m].open \in {emits[m].open, link.open}
           /\ emits'[m].pc \in {"confirming", "returned"} => emits[m].pc = "confirming"
<1>1. CASE StartEmit(m)
  BY <1>1, StartEmitEffect
<1>2. PICK pcs : pcs = {"declared", "failed", "publishing", "idle", "returned"}
  OBVIOUS
<1>3. CASE \E pc \in pcs : Go(m, pc) /\ link' = link /\ (pc = "returned" => emits[m].pc = "confirming")
  <2>1. PICK pc \in pcs : Go(m, pc) /\ link' = link /\ (pc = "returned" => emits[m].pc = "confirming")
    BY <1>3
  <2>2. pc \in EmitPCs
    BY <1>2 DEF EmitPCs
  <2>3. /\ emits' \in [Messages -> Emits] /\ emits'[m].pc = pc
        /\ \A n \in Messages : n # m => emits'[n] = emits[n]
        /\ emits'[m].open = emits[m].open
    BY <2>1, <2>2, EmitMoves
  <2>4. pc # "confirming"
    BY <1>2
  <2> QED
    BY <2>1, <2>3, <2>4
<1>4. \/ StartEmit(m)
      \/ \E pc \in pcs : Go(m, pc) /\ link' = link /\ (pc = "returned" => emits[m].pc = "confirming")
  BY <1>2 DEF EmitStep, DeclareExchange, Declared, Confirm, RetryEmit, At
<1> QED
  BY <1>1, <1>3, <1>4

LEMMA PublisherTypedStep ==
    ASSUME Typed, [MessagingNext]_messagingVars
    PROVE  PublisherTyped'
<1>0. PublisherTyped /\ emits \in [Messages -> Emits]
  BY DEF Typed, PublisherTyped, Emits
<1>1. CASE BrokerRestarts
  BY <1>0, <1>1, RestartEmits DEF PublisherTyped, Emits
<1>2. CASE ~BrokerRestarts
  <2>1. exchange' \in BOOLEAN /\ bound' \in BOOLEAN
    BY <1>2, BoundStays
  <2>2. emits' \in [Messages -> Emits] /\ link' \in [open : BOOLEAN, known : BOOLEAN]
    <3>1. CASE UNCHANGED publisherVars
      BY <1>0, <3>1 DEF publisherVars, PublisherTyped
    <3>2. ASSUME NEW m \in Messages, Publish(m)
          PROVE  emits' \in [Messages -> Emits] /\ link' \in [open : BOOLEAN, known : BOOLEAN]
      BY <1>0, <3>2, PublishEmits
    <3>3. ASSUME NEW m \in Messages, EmitStep(m), ~Publish(m)
          PROVE  emits' \in [Messages -> Emits] /\ link' \in [open : BOOLEAN, known : BOOLEAN]
      BY <1>0, <3>3, EmitStepEffect DEF PublisherTyped
    <3>4. CASE LinkStep \/ LosePublisher \/ PublisherExit
      BY <1>0, <3>4, LinkEmits
    <3> QED
      BY <1>2, <3>1, <3>2, <3>3, <3>4
         DEF MessagingNext, messagingVars, Publishing, Delivering, Expiring, PublisherNext
  <2> QED
    BY <2>1, <2>2 DEF PublisherTyped, Emits
<1> QED
  BY <1>1, <1>2

LEMMA QueueBoundStep ==
    ASSUME Typed, QueueBound, [MessagingNext]_messagingVars
    PROVE  QueueBound'
<1>0. PublisherTyped
  BY DEF Typed
<1>1. CASE BrokerRestarts
  BY <1>0, <1>1, RestartEmits DEF QueueBound
<1>2. CASE ~BrokerRestarts
  <2>1. config' = config /\ (bound => bound')
    BY <1>2, BoundStays
  <2>2. CASE UNCHANGED publisherVars
    BY <2>1, <2>2 DEF publisherVars, QueueBound
  <2>3. ASSUME NEW m \in Messages, Publish(m) PROVE QueueBound'
    BY <1>0, <2>1, <2>3, PublishEmits DEF QueueBound
  <2>4. ASSUME NEW m \in Messages, EmitStep(m), ~Publish(m) PROVE QueueBound'
    BY <1>0, <2>1, <2>4, EmitStepEffect DEF QueueBound
  <2>5. CASE LinkStep \/ LosePublisher \/ PublisherExit
    <3>1. CASE PublisherOpened
      <4>1. link'.open /\ emits' = emits /\ (config.topology => DeclareTopology)
        BY <3>1 DEF PublisherOpened
      <4>2. config.topology /\ config.binds => bound'
        BY <4>1, DeclareTopologyEffect
      <4> QED
        BY <2>1, <4>1, <4>2 DEF QueueBound
    <3> QED
      BY <1>0, <2>1, <2>5, <3>1, LinkEmits DEF QueueBound
  <2> QED
    BY <1>2, <2>2, <2>3, <2>4, <2>5
       DEF MessagingNext, messagingVars, Publishing, Delivering, Expiring, PublisherNext
<1> QED
  BY <1>1, <1>2

LEMMA UnackedStep ==
    ASSUME Typed, UnackedOK, [MessagingNext]_messagingVars
    PROVE  UnackedOK'
<1>0. channel.id \in Nat /\ \A d \in Deliveries : d[1] \in 0..channel.id
  BY DEF Typed, DeliveryTyped, Channels
<1>1. CASE Rests
  <2>1. CASE channel'.id = channel.id /\ channel'.open = channel.open
    BY <1>1, <2>1 DEF Rests, UnackedOK, Usable, MessageChannel, Deliveries
  <2>2. CASE ~channel.open /\ channel'.id = channel.id + 1
    <3>1. DOMAIN unacked' = {} /\ Deliveries' = Deliveries
      BY <1>1, <2>2 DEF Rests, UnackedOK, Deliveries
    <3>2. \A d \in Deliveries : d[1] # channel'.id
      BY <1>0, <2>2
    <3> QED
      BY <1>1, <3>1, <3>2 DEF Rests, UnackedOK, Usable, MessageChannel
  <2> QED
    BY <1>1, <2>1, <2>2 DEF Rests
<1>2. CASE Requeues
  BY <1>2 DEF Requeues, UnackedOK, Usable
<1>3. ASSUME NEW copy, NEW d, Arrives(d, copy) PROVE UnackedOK'
  <2>1. task'[d].copy = copy
    BY <1>3 DEF Arrives
  <2> QED
    BY <1>3, <2>1 DEF Arrives, UnackedOK, Usable, MessageChannel, Deliveries
<1>4. ASSUME NEW d \in Deliveries, TaskStep(d) PROVE UnackedOK'
  <2>1. Tasks(d)
    BY <1>4, TaskStepTasks
  <2>2. /\ Deliveries' \subseteq Deliveries /\ \A e \in Deliveries' : task'[e].copy = task[e].copy
        /\ Gone(d) => d \notin Deliveries'
    BY <2>1 DEF Tasks, Moved, Gone, Deliveries
  <2>3. \A e : Usable(e)' <=> Usable(e)
    BY <2>1 DEF Tasks, Usable, MessageChannel
  <2>4. CASE unacked' = unacked
    BY <2>1, <2>2, <2>3, <2>4 DEF Tasks, UnackedOK
  <2>5. CASE /\ Gone(d) /\ DOMAIN unacked' = DOMAIN unacked \ {d}
             /\ \A e \in DOMAIN unacked \ {d} : unacked'[e] = unacked[e]
    BY <2>1, <2>2, <2>3, <2>5 DEF Tasks, UnackedOK
  <2> QED
    BY <2>1, <2>4, <2>5 DEF Tasks
<1> QED
  BY <1>1, <1>2, <1>3, <1>4, StepKinds

-----------------------------------------------------------------------------
(* Attempts and failures                                                   *)

LEMMA CountedStays ==
    ASSUME Typed, config' = config, failed' \in [Messages -> Nat],
           \A m \in Messages : failed[m] <= failed'[m], NEW c \in Copy, Counted(c)
    PROVE  Counted(c)'
<1>1. c.message \in Messages /\ c.attempts \in Nat
  BY DEF Copy
<1>2. failed[c.message] \in Nat /\ failed'[c.message] \in Nat /\ failed[c.message] <= failed'[c.message]
  BY <1>1 DEF Typed, DeliveryTyped
<1> QED
  BY <1>1, <1>2 DEF Counted

LEMMA DeadStays ==
    ASSUME Typed, DeadAfterRetries, config' = config, failed' \in [Messages -> Nat],
           \A m \in Messages : failed[m] <= failed'[m],
           \A c \in DOMAIN stored' \ DOMAIN stored :
               c.place = "dead" /\ c.message \in config.decodable
                  => failed'[c.message] > config.policy.retries
    PROVE  DeadAfterRetries'
<1> SUFFICES ASSUME NEW m \in config.decodable, NEW c \in DOMAIN stored',
                    c.message = m, c.place = "dead"
             PROVE  failed'[m] > config.policy.retries
  BY DEF DeadAfterRetries, WaitsIn, BagToSet
<1>1. m \in Messages /\ config.policy.retries \in Nat
  BY ConfigIs
<1>2. CASE c \in DOMAIN stored
  <2>1. failed[m] > config.policy.retries
    BY <1>2 DEF DeadAfterRetries, WaitsIn, BagToSet
  <2>2. failed[m] \in Nat /\ failed'[m] \in Nat /\ failed[m] <= failed'[m]
    BY <1>1 DEF Typed, DeliveryTyped
  <2> QED
    BY <1>1, <2>1, <2>2
<1> QED
  BY <1>2

LEMMA AttemptsTasks ==
    ASSUME Typed, AttemptsOK, NEW d \in Deliveries, Tasks(d), Moved(d) => StepOK(d)',
           \A c \in DOMAIN stored' \ DOMAIN stored :
               /\ c.place # "dead" => Counted(c)'
               /\ c.place = "dead" /\ c.message \in config.decodable
                     => failed'[c.message] > config.policy.retries
    PROVE  AttemptsOK'
<1>1. /\ config' = config /\ failed' \in [Messages -> Nat]
      /\ \A m \in Messages : failed[m] <= failed'[m]
  BY DEF Tasks
<1>2. \A c \in DOMAIN stored' : c.place # "dead" => Counted(c)'
  <2> SUFFICES ASSUME NEW c \in DOMAIN stored', c.place # "dead", c \in DOMAIN stored
               PROVE  Counted(c)'
    OBVIOUS
  <2>1. c \in Copy /\ Counted(c)
    BY DEF Typed, DeliveryTyped, AttemptsOK
  <2> QED
    BY <1>1, <2>1, CountedStays
<1>3. ASSUME NEW e \in DOMAIN unacked' PROVE Counted(unacked[e])' 
  <2>1. PICK c : c = unacked[e]
    OBVIOUS
  <2>2. e \in DOMAIN unacked /\ unacked'[e] = c
    BY <2>1 DEF Tasks
  <2>3. c \in Copy /\ Counted(c)
    BY <2>1, <2>2 DEF Typed, DeliveryTyped, AttemptsOK
  <2>4. Counted(c)'
    BY <1>1, <2>3, CountedStays
  <2> QED
    BY <2>2, <2>4 DEF Counted
<1>4. ASSUME NEW e \in DOMAIN task' PROVE Counted(task[e].copy)' /\ StepOK(e)'
  <2>1. PICK c : c = task[e].copy
    OBVIOUS
  <2>2. e \in Deliveries /\ task'[e].copy = c
    BY <2>1 DEF Tasks, Moved, Gone, Deliveries
  <2>3. c \in Copy /\ Counted(c) /\ StepOK(e)
    BY <2>1, <2>2 DEF Typed, DeliveryTyped, AttemptsOK, Delivery
  <2>4. Counted(c)'
    BY <1>1, <2>3, CountedStays
  <2>5. StepOK(e)'
    <3>1. CASE e = d
      <4>1. Moved(d)
        BY <3>1 DEF Tasks, Gone, Deliveries
      <4> QED
        BY <3>1, <4>1
    <3>2. CASE e # d
      <4>1. task'[e] = task[e]
        BY <2>2, <3>2 DEF Tasks, Moved, Gone
      <4>2. /\ c.message \in Messages /\ c.attempts \in Nat
            /\ failed[c.message] \in Nat /\ failed'[c.message] \in Nat
            /\ failed[c.message] <= failed'[c.message]
        BY <1>1, <2>3 DEF Copy, Typed, DeliveryTyped
      <4> QED
        BY <1>1, <2>1, <2>3, <4>1, <4>2 DEF StepOK
    <3> QED
      BY <3>1, <3>2
  <2> QED
    BY <2>2, <2>4, <2>5 DEF Counted
<1>5. DeadAfterRetries'
  BY <1>1, DeadStays DEF AttemptsOK
<1> QED
  BY <1>2, <1>3, <1>4, <1>5 DEF AttemptsOK, Deliveries

\* A step of a task that publishes no copy.
LEMMA AttemptsAlone ==
    ASSUME Typed, AttemptsOK, NEW d \in Deliveries, Tasks(d), stored' = stored,
           Moved(d) => StepOK(d)'
    PROVE  AttemptsOK'
BY AttemptsTasks

LEMMA AttemptsTaskStep ==
    ASSUME Typed, AttemptsOK, NEW d \in Deliveries, TaskStep(d)
    PROVE  AttemptsOK'
<1>0. Tasks(d) /\ Counted(task[d].copy) /\ StepOK(d) /\ config' = config
  BY TaskStepTasks DEF AttemptsOK, Tasks
<1> DEFINE m == task[d].copy.message
<1>m. /\ m \in Messages /\ task[d].copy.attempts \in Nat /\ failed[m] \in Nat
      /\ config.policy.retries \in Nat
  BY ConfigIs DEF Typed, DeliveryTyped, Delivery, Copy
<1>c. Moved(d) => task'[d].copy = task[d].copy
  BY DEF Moved
<1>1. CASE Start(d)
  <2>1. /\ stored' = stored /\ task[d].pc = "created"
        /\ Moved(d) => /\ task'[d].failed = task[d].failed
                       /\ \/ task'[d].pc = "handling" /\ m \in config.decodable
                          \/ task'[d].pc = "refused" /\ m \notin config.decodable
    BY <1>1, StartEffect DEF Alone, Gone, Moved, Deliveries
  <2>2. Moved(d) => StepOK(d)'
    BY <1>0, <1>c, <2>1 DEF StepOK
  <2> QED
    BY <1>0, <2>1, <2>2, AttemptsAlone
<1>2. CASE Handle(d)
  <2>1. /\ stored' = stored /\ task[d].pc = "handling" /\ task'[d].pc = "closing"
        /\ task'[d].failed = task[d].failed
    BY <1>2, HandleEffect DEF Alone
  <2>2. Moved(d) => StepOK(d)'
    BY <1>0, <1>c, <2>1 DEF StepOK
  <2> QED
    BY <1>0, <2>1, <2>2, AttemptsAlone
<1>3. CASE CloseNext(d)
  <2>1. /\ stored' = stored /\ task[d].pc = "closing" /\ task'[d].pc = "closing"
        /\ task'[d].failed = task[d].failed
    BY <1>3, CloseNextEffect DEF Alone
  <2>2. Moved(d) => StepOK(d)'
    BY <1>0, <1>c, <2>1 DEF StepOK
  <2> QED
    BY <1>0, <2>1, <2>2, AttemptsAlone
<1>4. CASE Closed(d)
  <2>1. /\ stored' = stored /\ task[d].pc = "closing"
        /\ \/ ~Moved(d)
           \/ task'[d].pc = "acking"
           \/ /\ task'[d].pc = "failing"
              /\ failed' = [failed EXCEPT ![m] =
                     IF @ > config.policy.retries THEN @ ELSE @ + 1]
    BY <1>4, ClosedEffect DEF Gone, Moved, Deliveries
  <2>2. ASSUME Moved(d) PROVE StepOK(d)'
    <3>1. CASE task'[d].pc = "acking"
      BY <3>1 DEF StepOK
    <3>2. CASE /\ task'[d].pc = "failing"
               /\ failed' = [failed EXCEPT ![m] =
                      IF @ > config.policy.retries THEN @ ELSE @ + 1]
      <4>1. m \in config.decodable /\ task[d].copy.attempts <= failed[m]
            /\ task[d].copy.attempts <= config.policy.retries
        BY <1>0, <2>1 DEF StepOK, Counted
      <4>2. /\ failed' \in [Messages -> Nat] /\ failed[m] <= failed'[m]
            /\ failed[m] <= config.policy.retries => failed'[m] = failed[m] + 1
        BY <1>m, <3>2, FailuresGrow
      <4>3. failed'[m] > task[d].copy.attempts
        BY <1>m, <4>1, <4>2
      <4> QED
        BY <1>0, <1>c, <2>2, <3>2, <4>1, <4>3 DEF StepOK
    <3> QED
      BY <2>1, <2>2, <3>1, <3>2
  <2> QED
    BY <1>0, <2>1, <2>2, AttemptsAlone
<1>5. CASE Fail(d)
  <2>1. stored' = stored /\ task'[d].pc = "acking"
    BY <1>5, FailEffect DEF Alone
  <2>2. Moved(d) => StepOK(d)'
    BY <2>1 DEF StepOK
  <2> QED
    BY <1>0, <2>1, <2>2, AttemptsAlone
<1>6. CASE Republish(d)
  <2>1. /\ Target(d) # "none" /\ task[d].pc \in {"failing", "refused"} /\ failed' = failed
        /\ Moved(d) => task'[d].pc = "confirming"
        /\ stored' = stored \/ DOMAIN stored' = DOMAIN stored \cup {Replacement(d)}
    BY <1>6, RepublishEffect DEF Gone, Moved, Deliveries
  <2>2. Moved(d) => StepOK(d)'
    BY <2>1 DEF StepOK
  <2>3. /\ Replacement(d).message = m /\ Replacement(d).attempts = task[d].copy.attempts + 1
        /\ \/ /\ Replacement(d).place = "retry" /\ task[d].pc = "failing"
              /\ task[d].copy.attempts + 1 <= config.policy.retries
           \/ /\ Replacement(d).place = "dead"
              /\ task[d].pc = "failing" => task[d].copy.attempts + 1 > config.policy.retries
    BY <2>1, TargetPlaces
  <2>4. task[d].pc = "failing" => failed[m] > task[d].copy.attempts
    BY <1>0 DEF StepOK
  <2>5. PICK c : c = Replacement(d)
    OBVIOUS
  <2>6. c.place # "dead" => Counted(c)'
    <3>1. c.place # "dead" => /\ failed[m] >= c.attempts /\ c.message = m
                              /\ c.attempts <= config.policy.retries
      BY <1>m, <2>3, <2>4, <2>5
    <3> QED
      BY <1>0, <2>1, <3>1 DEF Counted
  <2>7. c.place = "dead" /\ c.message \in config.decodable
           => failed'[c.message] > config.policy.retries
    <3>1. m \in config.decodable => task[d].pc = "failing"
      BY <1>0, <2>1 DEF StepOK
    <3> QED
      BY <1>m, <2>1, <2>3, <2>4, <2>5, <3>1
  <2> QED
    BY <1>0, <2>1, <2>2, <2>5, <2>6, <2>7, AttemptsTasks
<1>7. CASE Republished(d)
  <2>1. stored' = stored /\ (Moved(d) => task'[d].pc = "acking")
    BY <1>7, RepublishedEffect DEF Alone, Gone, Moved, Deliveries
  <2>2. Moved(d) => StepOK(d)'
    BY <2>1 DEF StepOK
  <2> QED
    BY <1>0, <2>1, <2>2, AttemptsAlone
<1>8. CASE Ack(d)
  <2>1. stored' = stored /\ ~Moved(d)
    BY <1>8, AckEffect DEF Gone, Moved, Deliveries
  <2> QED
    BY <1>0, <2>1, AttemptsAlone
<1> QED
  BY <1>1, <1>2, <1>3, <1>4, <1>5, <1>6, <1>7, <1>8 DEF TaskStep

LEMMA AttemptsStep ==
    ASSUME Typed, UnackedOK, AttemptsOK, [MessagingNext]_messagingVars
    PROVE  AttemptsOK'
<1>n. \A m \in Messages : failed[m] <= failed[m]
  BY DEF Typed, DeliveryTyped
<1>1. CASE Rests
  <2>1. /\ UNCHANGED <<config, unacked, task, failed>> /\ DOMAIN stored' \subseteq Copy
        /\ \A c \in DOMAIN stored' \ DOMAIN stored :
              /\ c.place = "queue"
              /\ \/ c.attempts = 0
                 \/ \E b \in DOMAIN stored :
                       b.place = "retry" /\ b.message = c.message /\ b.attempts = c.attempts
    BY <1>1 DEF Rests
  <2>2. ASSUME NEW c \in DOMAIN stored' \ DOMAIN stored PROVE Counted(c)
    <3>1. c.message \in Messages
      BY <2>1 DEF Copy
    <3>2. CASE c.attempts = 0
      BY <3>1, <3>2, ConfigIs DEF Counted, Typed, DeliveryTyped
    <3>3. ASSUME NEW b \in DOMAIN stored,
                 b.place = "retry" /\ b.message = c.message /\ b.attempts = c.attempts
          PROVE  Counted(c)
      BY <3>3 DEF AttemptsOK, Counted
    <3> QED
      BY <2>1, <3>2, <3>3
  <2>3. \A c \in DOMAIN stored' : c.place # "dead" => Counted(c)
    BY <2>2 DEF AttemptsOK
  <2>4. \A c : Counted(c)' <=> Counted(c)
    BY <2>1 DEF Counted
  <2>5. DeadAfterRetries'
    BY <1>n, <2>1, DeadStays DEF AttemptsOK, Typed, DeliveryTyped
  <2> QED
    BY <2>1, <2>3, <2>4, <2>5 DEF AttemptsOK, StepOK, Deliveries, Counted
<1>2. CASE Requeues
  <2>1. config' = config /\ failed' = failed /\ DOMAIN unacked' = {}
        /\ DOMAIN stored' = DOMAIN stored \cup {unacked[d] : d \in DOMAIN unacked}
    BY <1>2 DEF Requeues
  <2>2. \A c : Counted(c)' <=> Counted(c)
    BY <2>1 DEF Counted
  <2>3. \A c \in DOMAIN stored' : c.place # "dead" => Counted(c)
    BY <2>1 DEF AttemptsOK
  <2>4. \A c \in DOMAIN stored' \ DOMAIN stored : c.place = "queue"
    BY <2>1 DEF Typed, DeliveryTyped
  <2>5. DeadAfterRetries'
    BY <1>n, <2>1, <2>4, DeadStays DEF AttemptsOK, Typed, DeliveryTyped
  <2>6. \A d \in DOMAIN task' : /\ d \in Deliveries /\ task'[d].copy = task[d].copy
                                /\ task'[d].pc = task[d].pc /\ task'[d].failed = task[d].failed
    BY <1>2 DEF Requeues, Deliveries
  <2>7. \A d \in DOMAIN task' : Counted(task[d].copy) /\ StepOK(d)
    BY <2>6 DEF AttemptsOK
  <2>8. \A d \in DOMAIN task' : Counted(task[d].copy)' /\ StepOK(d)'
    BY <2>1, <2>6, <2>7 DEF StepOK, Counted
  <2> QED
    BY <2>1, <2>2, <2>3, <2>5, <2>8 DEF AttemptsOK, Deliveries, Counted
<1>3. ASSUME NEW copy, NEW d, Arrives(d, copy) PROVE AttemptsOK'
  <2>1. /\ config' = config /\ failed' = failed /\ DOMAIN stored' \subseteq DOMAIN stored
        /\ copy \in DOMAIN stored /\ copy.place = "queue"
    BY <1>3 DEF Arrives
  <2>2. \A c : Counted(c)' <=> Counted(c)
    BY <2>1 DEF Counted
  <2>3. DeadAfterRetries'
    BY <1>n, <2>1, DeadStays DEF AttemptsOK, Typed, DeliveryTyped
  <2>4. Counted(copy)
    BY <2>1 DEF AttemptsOK
  <2>5. /\ task'[d].pc = "created" /\ task'[d].copy = copy /\ ~task'[d].failed
        /\ unacked'[d] = copy
    BY <1>3 DEF Arrives
  <2>6. \A e \in DOMAIN unacked' : Counted(unacked[e])'
    <3> SUFFICES ASSUME NEW e \in DOMAIN unacked' PROVE Counted(unacked[e])'
      OBVIOUS
    <3>1. e = d \/ (e \in DOMAIN unacked /\ unacked'[e] = unacked[e])
      BY <1>3 DEF Arrives
    <3>2. PICK c : c = unacked'[e] /\ Counted(c)
      BY <2>4, <2>5, <3>1 DEF AttemptsOK
    <3> QED
      BY <2>1, <3>2 DEF Counted
  <2>7. \A e \in DOMAIN task' : Counted(task[e].copy)' /\ StepOK(e)'
    <3> SUFFICES ASSUME NEW e \in DOMAIN task' PROVE Counted(task[e].copy)' /\ StepOK(e)'
      OBVIOUS
    <3>1. CASE e = d
      BY <2>1, <2>4, <2>5, <3>1 DEF Counted, StepOK
    <3>2. CASE e # d
      <4>1. e \in Deliveries /\ task'[e] = task[e]
        BY <1>3, <3>2 DEF Arrives, Deliveries
      <4>2. Counted(task[e].copy) /\ StepOK(e)
        BY <4>1 DEF AttemptsOK
      <4> QED
        BY <2>1, <4>1, <4>2 DEF Counted, StepOK
    <3> QED
      BY <3>1, <3>2
  <2>8. \A c \in DOMAIN stored' : c.place # "dead" => Counted(c)'
    BY <2>1, <2>2 DEF AttemptsOK
  <2> QED
    BY <2>3, <2>6, <2>7, <2>8 DEF AttemptsOK, Deliveries
<1>4. ASSUME NEW d \in Deliveries, TaskStep(d) PROVE AttemptsOK'
  BY <1>4, AttemptsTaskStep
<1> QED
  BY <1>1, <1>2, <1>3, <1>4, StepKinds

-----------------------------------------------------------------------------
(* What keeps a message goes on keeping it                                 *)

Dead(m) == \E copy \in DOMAIN stored : copy.message = m /\ copy.place = "dead"

\* No copy is taken away, and nothing that was settled is undone.
Settles ==
    /\ config' = config /\ succeeded \subseteq succeeded'
    /\ failed' \in [Messages -> Nat] /\ \A m \in Messages : failed[m] <= failed'[m]
    /\ \A m \in Messages : Dead(m) => Dead(m)'

Keeps == Settles /\ \A m \in Messages, a \in Nat : Live(m, a) => Live(m, a)'

LEMMA GivenUpStays ==
    ASSUME Typed, Settles, NEW m \in Messages, GivenUp(m)
    PROVE  GivenUp(m)'
<1>1. failed[m] \in Nat /\ failed'[m] \in Nat /\ failed[m] <= failed'[m]
      /\ config.policy.retries \in Nat /\ config' = config
  BY ConfigIs DEF Settles, Typed, DeliveryTyped
<1>2. config.policy.deadLetter => Dead(m)
  BY DEF GivenUp, WaitsIn, BagToSet, Dead
<1>3. config.policy.deadLetter => Dead(m)'
  BY <1>2 DEF Settles
<1>4. m \in config.decodable => failed'[m] > config.policy.retries
  BY <1>1 DEF GivenUp
<1> QED
  BY <1>1, <1>3, <1>4 DEF GivenUp, WaitsIn, BagToSet, Dead

LEMMA KeptStays ==
    ASSUME Typed, Keeps, NEW m \in Messages, NEW a \in Int, KeptBeyond(m, a)
    PROVE  KeptBeyond(m, a)'
<1>1. GivenUp(m) => GivenUp(m)'
  BY GivenUpStays DEF Keeps
<1>2. m \in succeeded => m \in succeeded'
  BY DEF Keeps, Settles
<1>3. \A b \in Nat : Live(m, b) => Live(m, b)'
  BY DEF Keeps
<1> QED
  BY <1>1, <1>2, <1>3 DEF KeptBeyond

LEMMA SameSettles ==
    ASSUME Typed, config' = config, succeeded' = succeeded, failed' = failed,
           \A c \in DOMAIN stored : c.place = "dead" => c \in DOMAIN stored'
    PROVE  Settles
BY DEF Settles, Dead, Typed, DeliveryTyped

LEMMA RestsKeeps == ASSUME Typed, Rests PROVE Keeps
<1>1. Settles
  BY SameSettles DEF Rests
<1>2. ASSUME NEW m \in Messages, NEW a \in Nat, Live(m, a) PROVE Live(m, a)'
  <2>1. ASSUME NEW c \in DOMAIN stored, c.place # "dead", c.message = m, c.attempts = a
        PROVE  Live(m, a)'
    <3>1. CASE c \in DOMAIN stored'
      BY <2>1, <3>1 DEF Live
    <3>2. ASSUME NEW b \in DOMAIN stored',
                 b.place = "queue" /\ b.message = c.message /\ b.attempts = c.attempts
          PROVE  Live(m, a)'
      BY <2>1, <3>2 DEF Live
    <3> QED
      BY <3>1, <3>2 DEF Rests
  <2>2. ASSUME NEW d \in DOMAIN unacked, unacked[d].message = m, unacked[d].attempts = a
        PROVE  Live(m, a)'
    BY <2>2 DEF Rests, Live
  <2> QED
    BY <1>2, <2>1, <2>2 DEF Live
<1> QED
  BY <1>1, <1>2 DEF Keeps

LEMMA RequeuesKeeps == ASSUME Typed, Requeues PROVE Keeps
<1>1. DOMAIN stored' = DOMAIN stored \cup {unacked[d] : d \in DOMAIN unacked}
  BY DEF Requeues
<1>2. Settles
  BY <1>1, SameSettles DEF Requeues
<1>3. ASSUME NEW m \in Messages, NEW a \in Nat, Live(m, a) PROVE Live(m, a)'
  <2>1. ASSUME NEW d \in DOMAIN unacked, unacked[d].message = m, unacked[d].attempts = a
        PROVE  Live(m, a)'
    <3>1. unacked[d].place = "queue" /\ unacked[d] \in DOMAIN stored'
      BY <1>1 DEF Typed, DeliveryTyped
    <3> QED
      BY <2>1, <3>1 DEF Live
  <2> QED
    BY <1>1, <1>3, <2>1 DEF Live
<1> QED
  BY <1>2, <1>3 DEF Keeps

LEMMA ArrivesKeeps == ASSUME Typed, NEW copy, NEW d, Arrives(d, copy) PROVE Keeps
<1>1. Settles
  BY SameSettles DEF Arrives
<1>2. ASSUME NEW m \in Messages, NEW a \in Nat, Live(m, a) PROVE Live(m, a)'
  <2>1. ASSUME NEW c \in DOMAIN stored, c.place # "dead", c.message = m, c.attempts = a
        PROVE  Live(m, a)'
    <3>1. CASE c = copy
      BY <2>1, <3>1 DEF Arrives, Live
    <3>2. CASE c # copy
      BY <2>1, <3>2 DEF Arrives, Live
    <3> QED
      BY <3>1, <3>2
  <2>2. ASSUME NEW e \in DOMAIN unacked, unacked[e].message = m, unacked[e].attempts = a
        PROVE  Live(m, a)'
    BY <2>2 DEF Arrives, Live
  <2> QED
    BY <1>2, <2>1, <2>2 DEF Live
<1> QED
  BY <1>1, <1>2 DEF Keeps

LEMMA TasksSettles == ASSUME NEW d, Tasks(d) PROVE Settles
BY DEF Tasks, Settles, Dead

LEMMA TasksKeeps ==
    ASSUME NEW d, Tasks(d), unacked' = unacked
    PROVE  Keeps
<1>1. Settles
  BY TasksSettles
<1>2. \A m \in Messages, a \in Nat : Live(m, a) => Live(m, a)'
  BY DEF Tasks, Live
<1> QED
  BY <1>1, <1>2 DEF Keeps

\* An ack takes one copy away: a message is still kept, by what the copy was acked for.
LEMMA AckKeeps ==
    ASSUME Typed, UnackedOK, ReplacedOK, NEW d \in Deliveries, Ack(d),
           NEW m \in Messages, NEW a \in Int, KeptBeyond(m, a)
    PROVE  KeptBeyond(m, a)'
<1>0. Tasks(d) /\ Settles
  BY TaskStepTasks, TasksSettles DEF TaskStep
<1>1. CASE ~Usable(d)
  <2>1. Keeps
    BY <1>0, <1>1, AckEffect, TasksKeeps
  <2> QED
    BY <2>1, KeptStays
<1>2. CASE Usable(d)
  <2>1. /\ d \in DOMAIN unacked /\ unacked[d] = task[d].copy /\ unacked[d] \in Copy
        /\ stored' = stored /\ DOMAIN unacked' = DOMAIN unacked \ {d}
        /\ \A e \in DOMAIN unacked \ {d} : unacked'[e] = unacked[e]
    BY <1>2, AckEffect DEF UnackedOK, Typed, DeliveryTyped
  <2>2. PICK n \in Messages, k \in Nat : n = unacked[d].message /\ k = unacked[d].attempts
    BY <2>1 DEF Copy
  <2>3. ASSUME NEW p \in Messages, NEW b \in Nat, Live(p, b), ~(p = n /\ b = k)
        PROVE  Live(p, b)'
    BY <2>1, <2>2, <2>3 DEF Live
  <2>4. KeptBeyond(n, k)'
    <3>1. CASE ~task[d].failed
      BY <1>2, <2>1, <2>2, <3>1, AckEffect DEF KeptBeyond
    <3>2. CASE task[d].failed
      <4>1. KeptBeyond(n, k)
        BY <1>2, <2>1, <2>2, <3>2, AckEffect DEF ReplacedOK
      <4>2. ASSUME NEW b \in Nat, b > k, Live(n, b) PROVE Live(n, b)'
        BY <2>3, <4>2
      <4>3. GivenUp(n) => GivenUp(n)'
        BY <1>0, GivenUpStays
      <4>4. n \in succeeded => n \in succeeded'
        BY <1>0 DEF Settles
      <4> QED
        BY <4>1, <4>2, <4>3, <4>4 DEF KeptBeyond
    <3> QED
      BY <3>1, <3>2
  <2>5. GivenUp(m) => GivenUp(m)'
    BY <1>0, GivenUpStays
  <2>6. m \in succeeded => m \in succeeded'
    BY <1>0 DEF Settles
  <2>7. ASSUME NEW b \in Nat, b > a, Live(m, b) PROVE KeptBeyond(m, a)'
    <3>1. CASE m = n /\ b = k
      <4>1. \A x \in Nat : x > k => x > a
        BY <2>7, <3>1
      <4> QED
        BY <2>4, <3>1, <4>1 DEF KeptBeyond
    <3>2. CASE ~(m = n /\ b = k)
      BY <2>3, <2>7, <3>2 DEF KeptBeyond
    <3> QED
      BY <3>1, <3>2
  <2> QED
    BY <2>5, <2>6, <2>7 DEF KeptBeyond
<1> QED
  BY <1>1, <1>2

\* Every step keeps what is kept.
LEMMA KeptOn ==
    ASSUME Typed, UnackedOK, ReplacedOK, [MessagingNext]_messagingVars,
           NEW m \in Messages, NEW a \in Int, KeptBeyond(m, a)
    PROVE  KeptBeyond(m, a)'
<1>1. CASE Rests
  BY <1>1, RestsKeeps, KeptStays
<1>2. CASE Requeues
  BY <1>2, RequeuesKeeps, KeptStays
<1>3. ASSUME NEW copy, NEW d, Arrives(d, copy) PROVE KeptBeyond(m, a)'
  BY <1>3, ArrivesKeeps, KeptStays
<1>4. ASSUME NEW d \in Deliveries, TaskStep(d) PROVE KeptBeyond(m, a)'
  <2>1. CASE Ack(d)
    BY <2>1, AckKeeps
  <2>2. CASE ~Ack(d)
    <3>1. unacked' = unacked
      BY <1>4, <2>2, StartEffect, HandleEffect, CloseNextEffect, ClosedEffect, FailEffect,
         RepublishEffect, RepublishedEffect DEF TaskStep, Alone
    <3>2. Keeps
      BY <1>4, <3>1, TaskStepTasks, TasksKeeps
    <3> QED
      BY <3>2, KeptStays
  <2> QED
    BY <2>1, <2>2
<1> QED
  BY <1>1, <1>2, <1>3, <1>4, StepKinds

\* What a failed delivery is acked for stays, and comes before its ack.
LEMMA ReplacedTasks ==
    ASSUME Typed, UnackedOK, ReplacedOK, [MessagingNext]_messagingVars,
           NEW d \in Deliveries, Tasks(d), NEW m \in Messages, NEW a \in Nat,
           m = task[d].copy.message, a = task[d].copy.attempts,
           Moved(d) /\ task'[d].pc \in {"confirming", "acking"} /\ task'[d].failed /\ Usable(d)
               => KeptBeyond(m, a)'
    PROVE  ReplacedOK'
<1> SUFFICES ASSUME NEW e \in Deliveries',
                    task'[e].pc \in {"confirming", "acking"}, task'[e].failed, Usable(e)'
             PROVE  KeptBeyond(task[e].copy.message, task[e].copy.attempts)'
  BY DEF ReplacedOK
<1>1. Usable(e)
  BY DEF Tasks, Usable, MessageChannel
<1>2. CASE e = d
  <2>1. Moved(d) /\ task'[d].copy = task[d].copy
    BY <1>2 DEF Tasks, Gone, Moved, Deliveries
  <2>2. KeptBeyond(m, a)'
    BY <1>1, <1>2, <2>1
  <2>3. m = task'[e].copy.message /\ a = task'[e].copy.attempts
    BY <1>2, <2>1
  <2> QED
    BY <2>2, <2>3
<1>3. CASE e # d
  <2>1. e \in Deliveries /\ task'[e] = task[e]
    BY <1>3 DEF Tasks, Gone, Moved, Deliveries
  <2>2. PICK n \in Messages, k \in Nat : n = task[e].copy.message /\ k = task[e].copy.attempts
    BY <2>1 DEF Typed, DeliveryTyped, Delivery, Copy
  <2>3. KeptBeyond(n, k)
    BY <1>1, <2>1, <2>2 DEF ReplacedOK
  <2>4. KeptBeyond(n, k)'
    BY <2>3, KeptOn
  <2>5. n = task'[e].copy.message /\ k = task'[e].copy.attempts
    BY <2>1, <2>2
  <2> QED
    BY <2>4, <2>5
<1> QED
  BY <1>2, <1>3

LEMMA ReplacedTaskStep ==
    ASSUME Typed, UnackedOK, AttemptsOK, ReplacedOK, [MessagingNext]_messagingVars,
           NEW d \in Deliveries, TaskStep(d)
    PROVE  ReplacedOK'
<1>0. Tasks(d) /\ StepOK(d)
  BY TaskStepTasks DEF AttemptsOK
<1>m. PICK m \in Messages, a \in Nat : m = task[d].copy.message /\ a = task[d].copy.attempts
  BY DEF Typed, DeliveryTyped, Delivery, Copy
<1> SUFFICES ASSUME Moved(d), task'[d].pc \in {"confirming", "acking"}, task'[d].failed, Usable(d)
             PROVE  KeptBeyond(m, a)'
  BY <1>0, <1>m, ReplacedTasks
<1>u. d \in Deliveries'
  BY DEF Moved, Deliveries
<1>1. CASE Start(d)
  BY <1>u, <1>1, StartEffect DEF Gone, Deliveries
<1>2. CASE Handle(d)
  BY <1>2, HandleEffect
<1>3. CASE CloseNext(d)
  BY <1>3, CloseNextEffect
<1>4. CASE Closed(d)
  BY <1>0, <1>u, <1>4, ClosedEffect DEF StepOK, Gone, Deliveries
<1>5. CASE Fail(d)
  <2>1. /\ Alone /\ ~config.policy.deadLetter /\ task[d].pc \in {"failing", "refused"}
        /\ task[d].pc = "failing" /\ config.policy.some => a + 1 > config.policy.retries
    BY <1>m, <1>5, FailEffect
  <2>2. m \in config.decodable => task[d].pc = "failing" /\ failed[m] > a
    BY <1>0, <1>m, <2>1 DEF StepOK
  <2>3. /\ failed[m] \in Nat /\ config.policy.retries \in Nat
        /\ ~config.policy.some => config.policy.retries = 0
    BY ConfigIs DEF Typed, DeliveryTyped
  <2>4. m \in config.decodable => failed[m] > config.policy.retries
    BY <2>1, <2>2, <2>3
  <2>5. GivenUp(m)
    BY <2>1, <2>4 DEF GivenUp
  <2>6. KeptBeyond(m, a)
    BY <2>5 DEF KeptBeyond
  <2> QED
    BY <2>6, KeptOn
<1>6. CASE Republish(d)
  <2>1. /\ DOMAIN stored' = DOMAIN stored \cup {Replacement(d)} /\ Target(d) # "none"
        /\ UNCHANGED <<failed, config>> /\ task[d].pc \in {"failing", "refused"}
    BY <1>u, <1>6, RepublishEffect DEF Gone, Deliveries
  <2>2. PICK c : c = Replacement(d)
    OBVIOUS
  <2>3. /\ c \in DOMAIN stored' /\ c.message = m /\ c.attempts = a + 1
        /\ \/ c.place = "retry"
           \/ c.place = "dead" /\ (task[d].pc = "failing" => a + 1 > config.policy.retries)
    BY <1>m, <2>1, <2>2, TargetPlaces
  <2>4. CASE c.place = "retry"
    <3>1. PICK k \in Nat : k = a + 1
      OBVIOUS
    <3>2. Live(m, k)'
      BY <2>3, <2>4, <3>1 DEF Live
    <3> QED
      BY <3>1, <3>2 DEF KeptBeyond
  <2>5. CASE c.place = "dead" /\ (task[d].pc = "failing" => a + 1 > config.policy.retries)
    <3>1. WaitsIn({"dead"}, m)'
      BY <2>3, <2>5 DEF WaitsIn, BagToSet
    <3>2. m \in config.decodable => task[d].pc = "failing" /\ failed[m] > a
      BY <1>0, <1>m, <2>1 DEF StepOK
    <3>3. failed[m] \in Nat /\ config.policy.retries \in Nat
      BY ConfigIs DEF Typed, DeliveryTyped
    <3>4. m \in config.decodable => failed[m] > config.policy.retries
      BY <2>5, <3>2, <3>3
    <3>5. GivenUp(m)'
      BY <2>1, <3>1, <3>4 DEF GivenUp
    <3> QED
      BY <3>5 DEF KeptBeyond
  <2> QED
    BY <2>3, <2>4, <2>5
<1>7. CASE Republished(d)
  <2>1. task[d].pc = "confirming" /\ task[d].failed
    BY <1>u, <1>7, RepublishedEffect DEF Gone, Deliveries
  <2>2. KeptBeyond(m, a)
    BY <1>m, <2>1 DEF ReplacedOK
  <2> QED
    BY <2>2, KeptOn
<1>8. CASE Ack(d)
  BY <1>u, <1>8, AckEffect DEF Gone, Deliveries
<1> QED
  BY <1>1, <1>2, <1>3, <1>4, <1>5, <1>6, <1>7, <1>8 DEF TaskStep

LEMMA ReplacedStep ==
    ASSUME Typed, UnackedOK, AttemptsOK, ReplacedOK, [MessagingNext]_messagingVars
    PROVE  ReplacedOK'
<1>1. CASE Requeues
  BY <1>1 DEF Requeues, ReplacedOK, Usable
<1>2. ASSUME NEW d \in Deliveries, TaskStep(d) PROVE ReplacedOK'
  BY <1>2, ReplacedTaskStep
<1>3. ASSUME \A e \in Deliveries' :
                task'[e].pc \in {"confirming", "acking"} /\ task'[e].failed /\ Usable(e)'
                    => e \in Deliveries /\ task'[e] = task[e] /\ Usable(e)
      PROVE  ReplacedOK'
  <2> SUFFICES ASSUME NEW e \in Deliveries',
                      task'[e].pc \in {"confirming", "acking"}, task'[e].failed, Usable(e)'
               PROVE  KeptBeyond(task[e].copy.message, task[e].copy.attempts)'
    BY DEF ReplacedOK
  <2>1. e \in Deliveries /\ task'[e] = task[e] /\ Usable(e)
    BY <1>3
  <2>2. PICK n \in Messages, k \in Nat : n = task[e].copy.message /\ k = task[e].copy.attempts
    BY <2>1 DEF Typed, DeliveryTyped, Delivery, Copy
  <2>3. KeptBeyond(n, k)'
    BY <2>1, <2>2, KeptOn DEF ReplacedOK
  <2>4. n = task'[e].copy.message /\ k = task'[e].copy.attempts
    BY <2>1, <2>2
  <2> QED
    BY <2>3, <2>4
<1>4. CASE Rests
  <2>1. task' = task /\ \/ channel'.id = channel.id /\ channel'.open = channel.open
                        \/ ~channel.open /\ channel'.id = channel.id + 1
    BY <1>4 DEF Rests
  <2>2. channel.id \in Nat /\ \A e \in Deliveries : e[1] \in 0..channel.id
    BY DEF Typed, DeliveryTyped, Channels
  <2>3. ASSUME NEW e \in Deliveries, Usable(e)' PROVE Usable(e)
    <3>1. e[1] = channel'.id /\ channel'.open
      BY <2>3 DEF Usable, MessageChannel
    <3>2. e[1] # channel.id + 1
      BY <2>2
    <3> QED
      BY <2>1, <3>1, <3>2 DEF Usable, MessageChannel
  <2> QED
    BY <1>3, <2>1, <2>3 DEF Deliveries
<1>5. ASSUME NEW copy, NEW d, Arrives(d, copy) PROVE ReplacedOK'
  <2>1. task'[d].pc = "created"
    BY <1>5 DEF Arrives
  <2>2. \A e \in Deliveries' : e # d => e \in Deliveries /\ task'[e] = task[e]
    BY <1>5 DEF Arrives, Deliveries
  <2>3. \A e \in Deliveries : Usable(e)' => Usable(e)
    BY <1>5 DEF Arrives, Usable, MessageChannel
  <2> QED
    BY <1>3, <2>1, <2>2, <2>3
<1> QED
  BY <1>1, <1>2, <1>4, <1>5, StepKinds

-----------------------------------------------------------------------------
(* What was published is kept                                              *)

\* Only a publish begins to wait for the broker's confirm.
LEMMA EmitsConfirmed ==
    ASSUME Typed, [MessagingNext]_messagingVars, NEW m \in Messages,
           emits'[m].pc \in {"confirming", "returned"}
    PROVE  emits[m].pc \in {"confirming", "returned"} \/ (Publishing /\ Publish(m))
<1>0. PublisherTyped
  BY DEF Typed
<1>1. CASE BrokerRestarts
  BY <1>0, <1>1, RestartEmits
<1>2. CASE UNCHANGED publisherVars
  BY <1>2 DEF publisherVars
<1>3. CASE Publishing
  <2>1. ASSUME NEW n \in Messages, Publish(n)
        PROVE  emits[m].pc \in {"confirming", "returned"} \/ (Publishing /\ Publish(m))
    BY <1>0, <1>3, <2>1, PublishEmits
  <2>2. ASSUME NEW n \in Messages, EmitStep(n), ~Publish(n)
        PROVE  emits[m].pc \in {"confirming", "returned"} \/ (Publishing /\ Publish(m))
    BY <1>0, <2>2, EmitStepEffect
  <2>3. CASE LinkStep \/ LosePublisher \/ PublisherExit
    BY <1>0, <2>3, LinkEmits
  <2> QED
    BY <1>3, <2>1, <2>2, <2>3 DEF Publishing, PublisherNext
<1> QED
  BY <1>1, <1>2, <1>3 DEF MessagingNext, messagingVars, Delivering, Expiring

\* A publish that waits for its confirm has reached the queue, where the publisher made sure of one.
LEMMA PublishedIsLive ==
    ASSUME Typed, QueueBound, Routed, NEW m \in Messages, Publish(m), emits'[m].pc = "confirming"
    PROVE  KeptBeyond(m, -1)'
<1>0. PublisherTyped
  BY DEF Typed
<1>1. ~Returned /\ emits[m].open
      /\ (bound => DOMAIN stored' = DOMAIN stored \cup {CopyOf("queue", m, 0)})
  BY <1>0, PublishEmits
<1>2. bound
  BY <1>1 DEF Routed, QueueBound, Returned
<1>3. PICK c : c = CopyOf("queue", m, 0)
  OBVIOUS
<1>4. c \in DOMAIN stored' /\ c.place = "queue" /\ c.message = m /\ c.attempts = 0
  BY <1>1, <1>2, <1>3, NewCopy
<1>5. Live(m, 0)'
  BY <1>4 DEF Live
<1>6. 0 \in Nat /\ 0 > -1
  OBVIOUS
<1> QED
  BY <1>5, <1>6 DEF KeptBeyond

LEMMA ConfigStays ==
    ASSUME Typed, [MessagingNext]_messagingVars
    PROVE  config' = config
<1>0. PublisherTyped
  BY DEF Typed
<1> QED
  BY <1>0, BoundStays, RestartEmits

LEMMA PublishedStep ==
    ASSUME Typed, UnackedOK, ReplacedOK, PublishedOK, [MessagingNext]_messagingVars
    PROVE  PublishedOK'
<1>1. QueueBound'
  BY QueueBoundStep DEF PublishedOK
<1>2. Routed' <=> Routed
  BY ConfigStays DEF Routed
<1>3. ASSUME Routed, NEW m \in Messages, emits'[m].pc \in {"confirming", "returned"}
      PROVE  KeptBeyond(m, -1)'
  <2>1. CASE emits[m].pc \in {"confirming", "returned"}
    <3>1. KeptBeyond(m, -1)
      BY <1>3, <2>1 DEF PublishedOK
    <3> QED
      BY <3>1, KeptOn
  <2>2. CASE emits[m].pc \notin {"confirming", "returned"}
    <3>1. Publish(m)
      BY <1>3, <2>2, EmitsConfirmed
    <3>2. emits'[m].pc = "confirming"
      BY <1>3, <3>1, PublishEmits DEF Typed
    <3> QED
      BY <1>3, <3>1, <3>2, PublishedIsLive DEF PublishedOK
  <2> QED
    BY <2>1, <2>2
<1> QED
  BY <1>1, <1>2, <1>3 DEF PublishedOK

-----------------------------------------------------------------------------
(* Closing a delivery's scope                                              *)

LEMMA ErrorKinds ==
    ASSUME NEW e \in Errors \cup {NoError}
    PROVE  /\ e = NoError <=> e \notin Errors
           /\ Cancellation \in e.of => ~IsException(e)
BY DEF Errors, NoError, IsException

LEMMA RaisedErrors ==
    /\ Raised("exception", <<"handler">>) \in Errors
    /\ Raised("base", Cancellation) \in Errors
    /\ \A k \in Int : Raised("exception", <<"exit", k>>) \in Errors
<1>1. <<"handler">> # Cancellation
  BY DEF Cancellation
<1>2. \A k \in Int : <<"exit", k>> # Cancellation
  BY DEF Cancellation
<1>3. Raised("exception", <<"handler">>) \in Errors
  BY <1>1 DEF Raised, Errors, Origins, IsException
<1>4. Raised("base", Cancellation) \in Errors
  BY DEF Raised, Errors, Origins, IsException
<1>5. \A k \in Int : Raised("exception", <<"exit", k>>) \in Errors
  BY <1>2 DEF Raised, Errors, Origins, IsException
<1> QED
  BY <1>3, <1>4, <1>5

LEMMA ErrorsAppended ==
    ASSUME NEW errors \in Seq(Errors), NEW e \in Errors
    PROVE  /\ Append(errors, e) \in Seq(Errors) /\ Append(errors, e) # <<>>
           /\ ToSet(Append(errors, e)) = ToSet(errors) \cup {e}
           /\ Of(Append(errors, e)) = Of(errors) \cup e.of
<1>0. PICK all : all = Append(errors, e)
  OBVIOUS
<1>1. /\ all \in Seq(Errors) /\ Len(errors) \in Nat /\ Len(all) = Len(errors) + 1
      /\ all[Len(errors) + 1] = e /\ \A i \in 1..Len(errors) : all[i] = errors[i]
  BY <1>0, AppendProperties
<1>2. all # <<>>
  BY <1>0, AppendProperties
<1>3. DOMAIN all = DOMAIN errors \cup {Len(errors) + 1} /\ DOMAIN errors = 1..Len(errors)
  <2>1. DOMAIN all = 1..(Len(errors) + 1) /\ DOMAIN errors = 1..Len(errors)
    BY <1>1
  <2> QED
    BY <1>1, <2>1
<1>4. ToSet(all) = ToSet(errors) \cup {e}
  BY <1>1, <1>3 DEF ToSet
<1>5. Of(all) = Of(errors) \cup e.of
  BY <1>4 DEF Of
<1> QED
  BY <1>0, <1>2, <1>4, <1>5

LEMMA NoErrors == ToSet(<<>>) = {} /\ Of(<<>>) = {}
BY DEF ToSet, Of

LEMMA ErrorsSeeded ==
    ASSUME NEW e \in Errors, NEW before \in Errors \cup {NoError}
    PROVE  /\ Seed(before, e) \in Seq(Errors) /\ Seed(before, e) # <<>>
           /\ e \in ToSet(Seed(before, e)) /\ Of(Seed(before, e)) = before.of \cup e.of
<1>1. CASE before = NoError
  <2>1. Seed(before, e) = <<e>> /\ before.of = {}
    BY <1>1 DEF Seed, NoError
  <2>2. ToSet(<<e>>) = {e}
    BY DEF ToSet
  <2> QED
    BY <2>1, <2>2 DEF Of
<1>2. CASE before # NoError
  <2>1. Seed(before, e) = <<before, e>> /\ before \in Errors
    BY <1>2 DEF Seed
  <2>2. ToSet(<<before, e>>) = {before, e}
    BY DEF ToSet
  <2> QED
    BY <2>1, <2>2 DEF Of
<1> QED
  BY <1>1, <1>2

LEMMA ExitedFields ==
    ASSUME NEW s, StackOK(s), NEW outcome
    PROVE  Exited(s, outcome) =
               [left |-> s.left - 1, exc |-> outcome, received |-> s.received,
                pending |-> IF outcome = s.exc THEN s.pending
                            ELSE Record(s.pending, s.exc, outcome),
                since |-> IF outcome = NoError THEN {} ELSE s.since \cup outcome.of]
<1>1. PICK l, x, r, p, c :
         s = [left |-> l, exc |-> x, received |-> r, pending |-> p, since |-> c]
  BY DEF StackOK
<1>2. PICK next : next = l - 1
  OBVIOUS
<1>3. PICK pending : pending = IF outcome = x THEN p ELSE Record(p, x, outcome)
  OBVIOUS
<1>4. PICK since : since = IF outcome = NoError THEN {} ELSE c \cup outcome.of
  OBVIOUS
<1>5. s.left = l /\ s.exc = x /\ s.received = r /\ s.pending = p /\ s.since = c
  BY <1>1
<1>6. Exited(s, outcome) = [s EXCEPT !.left = next, !.exc = outcome, !.pending = pending,
                                     !.since = since]
  BY <1>2, <1>3, <1>4, <1>5 DEF Exited
<1>7. Exited(s, outcome) = [left |-> next, exc |-> outcome, received |-> r, pending |-> pending,
                            since |-> since]
  BY <1>1, <1>6
<1> QED
  BY <1>2, <1>3, <1>4, <1>5, <1>7

\* Whatever the exit of a resource ends in.
LEMMA ExitedOK ==
    ASSUME NEW s, StackOK(s), NEW outcome \in Errors \cup {NoError}
    PROVE  StackOK(Exited(s, outcome))
<1>1. PICK e : e = Exited(s, outcome)
  OBVIOUS
<1>2. PICK pending : pending = IF outcome = s.exc THEN s.pending
                               ELSE Record(s.pending, s.exc, outcome)
  OBVIOUS
<1>3. PICK since : since = IF outcome = NoError THEN {} ELSE s.since \cup outcome.of
  OBVIOUS
<1>4. PICK left \in Int : left = s.left - 1
  BY DEF StackOK
<1>5. e = [left |-> left, exc |-> outcome, received |-> s.received, pending |-> pending,
           since |-> since]
  BY <1>1, <1>2, <1>3, <1>4, ExitedFields
<1> SUFFICES ASSUME TRUE
             PROVE  /\ pending = [changed |-> pending.changed, errors |-> pending.errors]
                    /\ pending.changed \in BOOLEAN /\ pending.errors \in Seq(Errors)
                    /\ ~pending.changed => /\ outcome = s.received /\ since = s.received.of
                                           /\ pending.errors = <<>>
                    /\ pending.changed => /\ since = Of(pending.errors)
                                          /\ outcome = NoError <=> pending.errors = <<>>
                                          /\ outcome # NoError => outcome \in ToSet(pending.errors)
  BY <1>1, <1>5 DEF StackOK
<1>6. CASE outcome = s.exc
  <2>1. pending = s.pending
    BY <1>2, <1>6
  <2>2. ~s.pending.changed => since = s.received.of
    <3>1. ~s.pending.changed => s.received = outcome /\ s.since = outcome.of
      BY <1>6 DEF StackOK
    <3>2. NoError.of = {}
      BY DEF NoError
    <3> QED
      BY <1>3, <3>1, <3>2
  <2>3. s.pending.changed => since = Of(s.pending.errors)
    <3>1. CASE outcome = NoError
      BY <1>3, <1>6, <3>1, NoErrors DEF StackOK
    <3>2. CASE outcome # NoError
      <4>1. s.pending.changed => outcome.of \subseteq Of(s.pending.errors)
        BY <1>6, <3>2 DEF StackOK, Of
      <4> QED
        BY <1>3, <3>2, <4>1 DEF StackOK
    <3> QED
      BY <3>1, <3>2
  <2> QED
    BY <1>6, <2>1, <2>2, <2>3 DEF StackOK
<1>7. CASE outcome # s.exc /\ outcome = NoError
  <2>1. pending = [changed |-> TRUE, errors |-> <<>>] /\ since = {}
    BY <1>2, <1>3, <1>7 DEF Record
  <2> QED
    BY <1>7, <2>1, NoErrors
<1>8. CASE outcome # s.exc /\ outcome # NoError
  <2>0. outcome \in Errors /\ since = s.since \cup outcome.of /\ s.exc \in Errors \cup {NoError}
        /\ s.pending.errors \in Seq(Errors) /\ s.pending.changed \in BOOLEAN
    BY <1>3, <1>8, ErrorKinds DEF StackOK
  <2>1. PICK errors : errors = IF ~s.pending.changed THEN Seed(s.exc, outcome)
                               ELSE IF outcome \in ToSet(s.pending.errors) THEN s.pending.errors
                               ELSE Append(s.pending.errors, outcome)
    OBVIOUS
  <2>2. pending = [changed |-> TRUE, errors |-> errors]
    BY <1>2, <1>8, <2>1 DEF Record
  <2>3. errors \in Seq(Errors) /\ errors # <<>> /\ outcome \in ToSet(errors) /\ since = Of(errors)
    <3>1. CASE ~s.pending.changed
      <4>1. s.since = s.exc.of
        BY <3>1 DEF StackOK
      <4> QED
        BY <2>0, <2>1, <3>1, <4>1, ErrorsSeeded
    <3>2. CASE s.pending.changed /\ outcome \in ToSet(s.pending.errors)
      <4>1. errors = s.pending.errors /\ s.since = Of(errors)
        BY <2>1, <3>2 DEF StackOK
      <4>2. outcome.of \subseteq Of(errors)
        BY <3>2, <4>1 DEF Of
      <4>3. errors # <<>>
        BY <3>2, <4>1, NoErrors
      <4> QED
        BY <2>0, <3>2, <4>1, <4>2, <4>3
    <3>3. CASE s.pending.changed /\ outcome \notin ToSet(s.pending.errors)
      <4>1. errors = Append(s.pending.errors, outcome) /\ s.since = Of(s.pending.errors)
        BY <2>1, <3>3 DEF StackOK
      <4> QED
        BY <2>0, <4>1, ErrorsAppended
    <3> QED
      BY <2>0, <3>1, <3>2, <3>3
  <2> QED
    BY <1>8, <2>2, <2>3
<1> QED
  BY <1>6, <1>7, <1>8

LEMMA StartedOK ==
    ASSUME NEW n \in Int, NEW e \in Errors \cup {NoError}
    PROVE  StackOK(Stack(n, e))
<1>1. PICK s : s = Stack(n, e)
  OBVIOUS
<1>2. s = [left |-> n, exc |-> e, received |-> e,
           pending |-> [changed |-> FALSE, errors |-> <<>>], since |-> e.of]
  BY <1>1 DEF Stack, Untouched
<1>3. PICK p : p = [changed |-> FALSE, errors |-> <<>>]
  OBVIOUS
<1>4. p.changed = FALSE /\ p.errors = <<>> /\ <<>> \in Seq(Errors)
  BY <1>3
<1>5. PICK of : of = e.of
  OBVIOUS
<1>6. s = [left |-> n, exc |-> e, received |-> e, pending |-> p, since |-> of]
  BY <1>2, <1>3, <1>5
<1>7. /\ s.left = n /\ s.exc = e /\ s.received = e /\ s.since = e.of
      /\ s.pending = p /\ s = [left |-> s.left, exc |-> s.exc, received |-> s.received,
                               pending |-> s.pending, since |-> s.since]
  BY <1>5, <1>6
<1>8. p = [changed |-> p.changed, errors |-> p.errors]
  BY <1>3
<1>9. StackOK(s)
  BY <1>4, <1>7, <1>8 DEF StackOK
<1> QED
  BY <1>1, <1>9

LEMMA ExitsOK ==
    ASSUME NEW s, StackOK(s), NEW cancels \in SUBSET Errors, NEW t \in Exits(s, cancels)
    PROVE  StackOK(t)
<1>1. PICK own \in {Raised("exception", <<"exit", s.left>>)} \cup ToSet(s.pending.errors) :
         \E outcome \in ExitSync(own, s.exc) \cup ExitAsync(own, s.exc, cancels) :
            t = Exited(s, outcome)
  BY DEF Exits
<1>2. PICK outcome \in ExitSync(own, s.exc) \cup ExitAsync(own, s.exc, cancels) :
         t = Exited(s, outcome)
  BY <1>1
<1>3. own \in Errors
  <2>1. ToSet(s.pending.errors) \subseteq Errors
    BY DEF StackOK, ToSet
  <2>2. Raised("exception", <<"exit", s.left>>) \in Errors
    BY RaisedErrors DEF StackOK
  <2> QED
    BY <1>1, <2>1, <2>2
<1>4. ExitSync(own, s.exc) \subseteq {NoError, own, s.exc}
  BY DEF ExitSync, ExitGenerator, ExitManager, Does
<1>5. outcome \in {NoError, own, s.exc} \cup cancels
  BY <1>2, <1>4 DEF ExitAsync
<1>6. outcome \in Errors \cup {NoError}
  BY <1>3, <1>5 DEF StackOK
<1> QED
  BY <1>2, <1>6, ExitedOK

LEMMA CancelledErrors == ASSUME NEW d PROVE Cancelled(d) \in SUBSET Errors
BY RaisedErrors DEF Cancelled

LEMMA StacksTaskStep ==
    ASSUME Typed, StacksOK, NEW d \in Deliveries, TaskStep(d)
    PROVE  StacksOK'
<1>0. Tasks(d)
  BY TaskStepTasks
<1> SUFFICES ASSUME Moved(d), task'[d].pc = "closing" PROVE StackOK(task'[d].stack)
  BY <1>0 DEF Tasks, Gone, Moved, StacksOK, In, Deliveries
<1>u. d \in Deliveries'
  BY DEF Moved, Deliveries
<1>1. CASE Start(d)
  BY <1>u, <1>1, StartEffect DEF Gone, Deliveries
<1>2. CASE Handle(d)
  <2>1. PICK n \in 0..config.resources,
             e \in {NoError, Raised("exception", <<"handler">>)} \cup Cancelled(d) :
           task'[d].stack = Stack(n, e)
    BY <1>2, HandleEffect
  <2>2. n \in Int
    BY <2>1
  <2>3. e \in Errors \cup {NoError}
    BY <2>1, RaisedErrors, CancelledErrors
  <2> QED
    BY <2>1, <2>2, <2>3, StartedOK
<1>3. CASE CloseNext(d)
  <2>1. task[d].pc = "closing" /\ task'[d].stack \in Exits(task[d].stack, Cancelled(d))
    BY <1>3, CloseNextEffect
  <2>2. StackOK(task[d].stack)
    BY <2>1 DEF StacksOK, In
  <2> QED
    BY <2>1, <2>2, CancelledErrors, ExitsOK
<1>4. CASE Closed(d) \/ Fail(d) \/ Republish(d) \/ Republished(d) \/ Ack(d)
  BY <1>u, <1>4, ClosedEffect, FailEffect, RepublishEffect, RepublishedEffect, AckEffect
     DEF Gone, Deliveries
<1> QED
  BY <1>1, <1>2, <1>3, <1>4 DEF TaskStep

LEMMA StacksStep ==
    ASSUME Typed, UnackedOK, StacksOK, [MessagingNext]_messagingVars
    PROVE  StacksOK'
<1>1. CASE Rests
  BY <1>1 DEF Rests, StacksOK, In, Deliveries
<1>2. CASE Requeues
  BY <1>2 DEF Requeues, StacksOK, In, Deliveries
<1>3. ASSUME NEW copy, NEW d, Arrives(d, copy) PROVE StacksOK'
  <2>1. task'[d].pc # "closing"
    BY <1>3 DEF Arrives
  <2> QED
    BY <1>3, <2>1 DEF Arrives, StacksOK, In, Deliveries
<1>4. ASSUME NEW d \in Deliveries, TaskStep(d) PROVE StacksOK'
  BY <1>4, StacksTaskStep
<1> QED
  BY <1>1, <1>2, <1>3, <1>4, StepKinds

\* What a close ends in stands for all that was raised since the last error suppressed.
LEMMA SettledOK ==
    ASSUME NEW s, StackOK(s)
    PROVE  /\ Settle(s).of = s.since
           /\ Cancellation \in s.since => ~IsException(Settle(s))
<1> DEFINE errors == s.pending.errors
<1>0. errors \in Seq(Errors) /\ s.pending.changed \in BOOLEAN
  BY DEF StackOK
<1>1. CASE ~s.pending.changed
  <2>1. Settle(s) = s.exc /\ s.since = s.exc.of /\ s.exc \in Errors \cup {NoError}
    BY <1>1 DEF Settle, StackOK
  <2> QED
    BY <2>1, ErrorKinds
<1>2. CASE s.pending.changed /\ errors = <<>>
  <2>1. Settle(s) = NoError /\ s.since = {}
    BY <1>2, NoErrors DEF Settle, StackOK
  <2> QED
    BY <2>1 DEF NoError
<1>3. CASE s.pending.changed /\ errors # <<>> /\ Len(errors) = 1
  <2>1. Settle(s) = errors[1] /\ s.since = Of(errors)
    BY <1>3 DEF Settle, StackOK
  <2>2. errors[1] \in Errors /\ DOMAIN errors = {1}
    BY <1>0, <1>3
  <2>3. Of(errors) = errors[1].of
    BY <2>2 DEF Of, ToSet
  <2> QED
    BY <2>1, <2>2, <2>3, ErrorKinds
<1>4. CASE s.pending.changed /\ errors # <<>> /\ Len(errors) # 1
  <2>1. Settle(s) = Group(ToSet(errors)) /\ s.since = Of(errors)
    BY <1>4 DEF Settle, StackOK
  <2>2. ToSet(errors) \subseteq Errors
    BY <1>0 DEF ToSet
  <2>3. Settle(s).of = Of(errors)
    BY <2>1 DEF Group, Of
  <2>4. ASSUME Cancellation \in Of(errors) PROVE ~IsException(Settle(s))
    <3>1. PICK e \in ToSet(errors) : Cancellation \in e.of
      BY <2>4 DEF Of
    <3>2. ~IsException(e)
      BY <2>2, <3>1, ErrorKinds
    <3> QED
      BY <2>1, <3>1, <3>2 DEF Group, IsException
  <2> QED
    BY <2>1, <2>3, <2>4
<1> QED
  BY <1>0, <1>1, <1>2, <1>3, <1>4

-----------------------------------------------------------------------------
(* The invariant                                                           *)

IInv ==
    Typed /\ UnackedOK /\ AttemptsOK /\ ReplacedOK /\ PublishedOK /\ StacksOK

LEMMA InitCopies ==
    ASSUME MessagingInit
    PROVE  DOMAIN stored = {CopyOf("queue", m, 0) : m \in config.waiting}
BY DEF MessagingInit, BrokerInit, SetToBag

LEMMA InitIInv == ASSUME MessagingInit PROVE IInv
<1>1. config \in Configurations /\ IsConfig(config)
  BY BrokerAssumption DEF MessagingInit, BrokerInit
<1>2. config.waiting \subseteq Messages /\ config.policy.retries \in Nat
  BY <1>1 DEF IsConfig
<1>3. \A c \in DOMAIN stored : /\ c \in Copy /\ c.place = "queue" /\ c.attempts = 0
                               /\ c.message \in config.waiting
  BY <1>2, InitCopies, NewCopy
<1>4. DOMAIN unacked = {} /\ DOMAIN task = {}
  BY DEF MessagingInit, DeliveryInit
<1>5. channel \in Channels /\ ~channel.open
  BY DEF MessagingInit, DeliveryInit, Channels
<1>6. failed = [m \in Messages |-> 0] /\ succeeded = {}
  BY DEF MessagingInit, DeliveryInit
<1>7. /\ emits \in [Messages -> [pc : EmitPCs, open : BOOLEAN]]
      /\ \A m \in Messages : ~emits[m].open
      /\ \A m \in Messages : emits[m].pc # "idle" => m \in config.waiting
      /\ \A m \in Messages : emits[m].pc # "confirming"
      /\ link \in [open : BOOLEAN, known : BOOLEAN] /\ ~link.open
  BY DEF MessagingInit, PublisherInit, EmitPCs
<1>8. Typed
  <2>1. PublisherTyped
    BY <1>7 DEF PublisherTyped, MessagingInit, BrokerInit
  <2>2. DeliveryTyped
    BY <1>1, <1>3, <1>4, <1>5, <1>6 DEF DeliveryTyped, Deliveries
  <2> QED
    BY <2>1, <2>2 DEF Typed
<1>9. UnackedOK /\ ReplacedOK /\ StacksOK
  BY <1>4, <1>5 DEF UnackedOK, ReplacedOK, StacksOK, Deliveries
<1>10. AttemptsOK
  <2>1. \A c \in DOMAIN stored : Counted(c)
    BY <1>2, <1>3, <1>6 DEF Counted, Copy
  <2>2. DeadAfterRetries
    BY <1>3 DEF DeadAfterRetries, WaitsIn, BagToSet
  <2> QED
    BY <1>4, <2>1, <2>2 DEF AttemptsOK, Deliveries
<1>11. PublishedOK
  <2>1. QueueBound
    BY <1>7 DEF QueueBound
  <2>2. ASSUME NEW m \in Messages, emits[m].pc = "returned" PROVE KeptBeyond(m, -1)
    <3>1. PICK c : c = CopyOf("queue", m, 0)
      OBVIOUS
    <3>2. c \in DOMAIN stored /\ c.place = "queue" /\ c.message = m /\ c.attempts = 0
      BY <1>7, <2>2, <3>1, InitCopies, NewCopy
    <3>3. Live(m, 0)
      BY <3>2 DEF Live
    <3>4. 0 \in Nat /\ 0 > -1
      OBVIOUS
    <3> QED
      BY <3>3, <3>4 DEF KeptBeyond
  <2> QED
    BY <1>7, <2>1, <2>2 DEF PublishedOK
<1> QED
  BY <1>8, <1>9, <1>10, <1>11 DEF IInv

LEMMA NextIInv == ASSUME IInv, [MessagingNext]_messagingVars PROVE IInv'
<1>1. Typed'
  BY DeliveryTypedStep, PublisherTypedStep DEF Typed, IInv
<1> QED
  BY <1>1, UnackedStep, AttemptsStep, ReplacedStep, PublishedStep, StacksStep DEF IInv

LEMMA SpecIInv == MessagingSpec => []IInv
BY InitIInv, NextIInv, PTL DEF MessagingSpec

\* Every variable that the deliveries and the publisher keep has its type: tags stay within the
\* prefetch count, and deliveries on channels that were opened.
THEOREM TypeCorrect == MessagingSpec => []Typed
<1>1. IInv => Typed
  BY DEF IInv
<1> QED
  BY <1>1, SpecIInv, PTL

\* "delivers it twice, never zero times": an emit that returned, through a publisher that made
\* sure that there is a queue, is on its way, handled or given up, for any number of lost channels,
\* restarts, exits and crashes.  A delivery is acked only once it was handled, or once its
\* replacement is with the broker or there is nothing left to try.
THEOREM NeverLostHolds == MessagingSpec => []NeverLost
<1>1. ASSUME IInv PROVE NeverLost
  <2> SUFFICES ASSUME NEW m \in Messages, emits[m].pc = "returned", Routed
               PROVE  Pending(m) \/ m \in succeeded \/ GivenUp(m)
    BY DEF NeverLost, Sent, Routed
  <2>1. KeptBeyond(m, -1)
    BY <1>1 DEF IInv, PublishedOK
  <2>2. ASSUME NEW b \in Nat, Live(m, b) PROVE Pending(m)
    <3>1. \A c \in DOMAIN stored : c.place # "dead" => c.place \in {"queue", "retry"}
      BY <1>1 DEF IInv, Typed, DeliveryTyped, Copy, Places
    <3> QED
      BY <2>2, <3>1 DEF Live, Pending, WaitsIn, BagToSet
  <2> QED
    BY <2>1, <2>2 DEF KeptBeyond
<1> QED
  BY <1>1, SpecIInv, PTL

\* A message is dead-lettered only after its handling failed more often than it is retried,
\* whatever redeliveries and cancellations came between: the attempts header never runs ahead of
\* the failures.
THEOREM DeadAfterRetriesHolds == MessagingSpec => []DeadAfterRetries
<1>1. IInv => DeadAfterRetries
  BY DEF IInv, AttemptsOK
<1> QED
  BY <1>1, SpecIInv, PTL

\* However many resources a delivery's scope holds, and whatever their exits raise, suppress or
\* are cancelled in, closing it hides no error, and no cancellation becomes a failure.
THEOREM ClosingHidesNothingHolds == MessagingSpec => []ClosingHidesNothing
<1>1. ASSUME IInv PROVE ClosingHidesNothing
  BY <1>1, SettledOK DEF IInv, StacksOK, ClosingHidesNothing
<1> QED
  BY <1>1, SpecIInv, PTL

-----------------------------------------------------------------------------
(* The channel of the deliveries                                           *)

\* The consumer's queue is consumed on an open channel only.
ConsumingOK == channel.consuming => channel.open

LEMMA ItsChannelRests ==
    ASSUME channel' = channel
    PROVE  [ItsChannel!ChannelNext]_(ItsChannel!channelVars) /\ (ConsumingOK => ConsumingOK')
BY DEF ItsChannel!channelVars, ConsumingOK

\* The channel is lost, or closed in leaving or by a crash.
LEMMA ItsChannelShuts ==
    ASSUME Typed, UnackedOK, ConsumingOK,
           NEW k \in {channel.known, FALSE},
           channel' = [channel EXCEPT !.open = FALSE, !.known = k, !.consuming = FALSE]
    PROVE  [ItsChannel!ChannelNext]_(ItsChannel!channelVars) /\ ConsumingOK'
<1>1. /\ channel.id' = channel.id /\ channel.open' = FALSE /\ channel.known' = k
      /\ channel.consuming' = FALSE
  BY DEF Typed, DeliveryTyped, Channels
<1>2. channel.open \in BOOLEAN /\ channel.known \in BOOLEAN /\ channel.consuming \in BOOLEAN
  BY DEF Typed, DeliveryTyped, Channels
<1>3. ConsumingOK'
  BY <1>1 DEF ConsumingOK
<1>4. CASE channel.open
  <2>1. ItsChannel!Shut
    BY <1>1, <1>4 DEF ItsChannel!Shut
  <2> QED
    BY <1>3, <2>1 DEF ItsChannel!ChannelNext
<1>5. CASE ~channel.open
  <2>1. channel.consuming = FALSE /\ channel.open = FALSE
    BY <1>2, <1>5 DEF ConsumingOK
  <2>2. CASE k = channel.known
    <3>1. UNCHANGED ItsChannel!channelVars
      BY <1>1, <2>1, <2>2 DEF ItsChannel!channelVars
    <3> QED
      BY <1>3, <3>1
  <2>3. CASE k = FALSE /\ channel.known
    <3>1. ItsChannel!Drop
      BY <1>1, <1>5, <2>1, <2>3 DEF ItsChannel!Drop
    <3> QED
      BY <1>3, <3>1 DEF ItsChannel!ChannelNext
  <2> QED
    BY <1>2, <2>2, <2>3
<1> QED
  BY <1>4, <1>5

LEMMA ItsChannelStep ==
    ASSUME Typed, UnackedOK, ConsumingOK, [MessagingNext]_messagingVars
    PROVE  [ItsChannel!ChannelNext]_(ItsChannel!channelVars) /\ ConsumingOK'
<1> DEFINE Goal == [ItsChannel!ChannelNext]_(ItsChannel!channelVars) /\ ConsumingOK'
<1>t. /\ channel = [channel EXCEPT !.known = channel.known]
      /\ channel.id \in Nat /\ channel.open \in BOOLEAN /\ channel.known \in BOOLEAN
      /\ channel.consuming \in BOOLEAN
  BY DEF Typed, DeliveryTyped, Channels
<1>1. ASSUME channel' = channel PROVE Goal
  BY <1>1, ItsChannelRests
<1>2. ASSUME channel' = [channel EXCEPT !.open = FALSE, !.consuming = FALSE] PROVE Goal
  <2>1. channel' = [channel EXCEPT !.open = FALSE, !.known = channel.known, !.consuming = FALSE]
    BY <1>2 DEF Typed, DeliveryTyped, Channels
  <2> QED
    BY <2>1, ItsChannelShuts
<1>3. ASSUME channel' = [channel EXCEPT !.open = FALSE, !.known = FALSE, !.consuming = FALSE]
      PROVE  Goal
  BY <1>3, ItsChannelShuts
<1>4. ASSUME ConsumerLost PROVE Goal
  <2>1. channel.known = TRUE /\ channel.open = FALSE
    BY <1>4, <1>t DEF ConsumerLost
  <2>2. /\ channel.id' = channel.id /\ channel.open' = channel.open /\ channel.known' = FALSE
        /\ channel.consuming' = channel.consuming
    BY <1>4 DEF ConsumerLost, Typed, DeliveryTyped, Channels
  <2>3. ItsChannel!Drop
    BY <2>1, <2>2 DEF ItsChannel!Drop
  <2> QED
    BY <2>2, <2>3 DEF ItsChannel!ChannelNext, ConsumingOK
<1>5. ASSUME ConsumerOpened PROVE Goal
  <2>1. channel.known = FALSE /\ channel.open = FALSE
    BY <1>5, <1>t DEF ConsumerOpened, UnackedOK
  <2>2. /\ channel.id' = channel.id + 1 /\ channel.open' = TRUE /\ channel.known' = TRUE
        /\ channel.consuming' = TRUE
    BY <1>5 DEF ConsumerOpened, Resumes
  <2>3. ItsChannel!Open
    BY <2>1, <2>2 DEF ItsChannel!Open
  <2> QED
    BY <2>2, <2>3 DEF ItsChannel!ChannelNext, ConsumingOK
<1>6. ASSUME Exit PROVE Goal
  <2>1. channel' = [channel EXCEPT !.consuming = FALSE]
    BY <1>6 DEF Exit
  <2>2. /\ channel.id' = channel.id /\ channel.open' = channel.open
        /\ channel.known' = channel.known /\ channel.consuming' = FALSE
    BY <2>1 DEF Typed, DeliveryTyped, Channels
  <2>3. CASE channel.open
    BY <2>2, <2>3 DEF ItsChannel!ChannelNext, ItsChannel!Change, ConsumingOK
  <2>4. CASE ~channel.open
    <3>1. channel.consuming = FALSE
      BY <2>4, <1>t DEF ConsumingOK
    <3> QED
      BY <2>2, <3>1 DEF ItsChannel!channelVars, ConsumingOK
  <2> QED
    BY <2>3, <2>4
<1>7. ASSUME LoseChannel \/ BrokerRestarts PROVE Goal
  BY <1>2, <1>7 DEF LoseChannel, BrokerRestarts
<1>8. ASSUME Leave \/ Crash PROVE Goal
  BY <1>3, <1>8 DEF Leave, Crash
<1>9. ASSUME Enter PROVE Goal
  BY <1>1, <1>9 DEF Enter
<1>10. ASSUME NEW copy, Deliver(copy) PROVE Goal
  BY <1>1, <1>10 DEF Deliver
<1>11. ASSUME NEW d, TaskStep(d) PROVE Goal
  <2>1. channel' = channel
    BY <1>11 DEF TaskStep, Start, Handle, CloseNext, Closed, Fail, Republish, Republished, Ack
  <2> QED
    BY <2>1, <1>1
<1>12. ASSUME Publishing \/ Expiring \/ UNCHANGED messagingVars PROVE Goal
  BY <1>1, <1>12 DEF Publishing, Expiring, messagingVars, deliveryVars
<1> QED
  BY <1>4, <1>5, <1>6, <1>7, <1>8, <1>9, <1>10, <1>11, <1>12
     DEF MessagingNext, Delivering, DeliveryNext, ConsumerStep

\* The channel in which RabbitMessaging sums the consumer's connection up keeps to the same
\* specification: the two models of one link agree on what a delivery may rest on.
THEOREM DeliveriesOnTheChannel == MessagingSpec => OnTheChannel
<1>1. MessagingInit => ConsumingOK /\ ItsChannel!ChannelInit
  BY DEF MessagingInit, DeliveryInit, ConsumingOK, ItsChannel!ChannelInit
<1>2. IInv => Typed /\ UnackedOK
  BY DEF IInv
<1>3. Typed /\ UnackedOK /\ ConsumingOK /\ [MessagingNext]_messagingVars
         => [ItsChannel!ChannelNext]_(ItsChannel!channelVars) /\ ConsumingOK'
  BY ItsChannelStep
<1> QED
  BY <1>1, <1>2, <1>3, SpecIInv, PTL DEF MessagingSpec, OnTheChannel, ItsChannel!ChannelSpec

=============================================================================
