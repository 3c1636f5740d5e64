--------------------------- MODULE WeightTransfer ---------------------------
(***************************************************************************)
(* The path of the weights from the trainer to one inference worker:       *)
(* NCCLCheckpointEngine.send_weights packs chunks into two alternating     *)
(* buckets and broadcasts them, receive_weights hands the weights out while *)
(* the next bucket arrives, and BucketedWeightSender passes them on through *)
(* one shared buffer to BucketedWeightReceiver, bucket by acknowledged     *)
(* bucket.  Copies on a device run some time after they are issued, and    *)
(* synchronize waits for them.                                             *)
(***************************************************************************)
EXTENDS Integers, Sequences, SequencesExt

CONSTANTS
  Models,        \* the models: sequences of the sizes of their weights
  EngineBucket,  \* bucket_size of the checkpoint engine
  IpcBuckets,    \* values of update_weights_bucket_megabytes
  NoOp,          \* no broadcast, no message, no metadata
  Blank          \* what a fresh buffer holds

\* What the variables below hold besides NoOp.
Places == ({"send", "recv", "merge", "ipc"} \X Nat) \X Nat
MetaEntries == [chunk : [w : Nat, chunkOffset : Nat, size : Nat], offset : Nat]
Broadcasts == [buffer : {"send"} \X {0, 1}, meta : Seq(MetaEntries), isLast : BOOLEAN]
Arrivals == [meta : Seq(MetaEntries), isLast : BOOLEAN]
PlacedWeights == [w : Nat, at : Places]
Messages == [entries : Seq(PlacedWeights), isLast : BOOLEAN]

ASSUME TransferAssumption ==
  /\ Models \subseteq Seq(Nat \ {0}) /\ Models # {}
  /\ EngineBucket \in Nat \ {0} /\ IpcBuckets \subseteq Nat \ {0}
  /\ NoOp \notin {0, 1} /\ NoOp \notin Broadcasts /\ NoOp \notin Arrivals
  /\ NoOp \notin PlacedWeights /\ NoOp \notin Messages

VARIABLES
  sizes, ipcBucket,  \* the model and the buffer of this transfer
  mem,               \* the buffers, each a function from offsets to bytes
  sndPc, nextChunk, fill, bucketMeta, offset,    \* send_weights
  op,                \* the sender's broadcast: NoOp or a record
  rcvPc, recvBuf, posted, metadata, index,       \* _receive_weight_chunks
  arrived,           \* metadata of the broadcast that has just completed
  weight,            \* the weight that the sender of the ipc stage handles
  ipcMeta, ipcOffset,
  stream,            \* copies issued on the rollout's device and not yet run
  message,           \* in the ipc socket, until it is acknowledged
  loaded,            \* the weights that the inference worker has loaded
  received           \* BucketedWeightReceiver has seen the last bucket

sender == <<sndPc, nextChunk, fill, bucketMeta, offset>>
receiver == <<rcvPc, recvBuf, posted, metadata, index>>
ipc == <<weight, ipcMeta, ipcOffset>>
worker == <<loaded, received>>
transferVars == <<sizes, ipcBucket, mem, sender, op, receiver, arrived, ipc, stream, message, worker>>

-----------------------------------------------------------------------------
(* Weights, chunks, memory *)

Weights == DOMAIN sizes
Content(w) == [i \in 0..(sizes[w] - 1) |-> <<w, i>>]

\* split_weight_chunks
ChunksOf(w) ==
  [k \in 1..((sizes[w] + EngineBucket - 1) \div EngineBucket) |->
     LET first == (k - 1) * EngineBucket IN
     [w |-> w, chunkOffset |-> first,
      size |-> IF sizes[w] - first < EngineBucket THEN sizes[w] - first ELSE EngineBucket]]

Chunks == FlattenSeq([w \in Weights |-> ChunksOf(w)])

\* A place is <<buffer, offset>>; the tensor of a merged weight is a buffer.
EngineBuffers == {<<side, i>> : side \in {"send", "recv"}, i \in {0, 1}}
MergeBuffer(w) == <<"merge", w>>
IpcBuffer == <<"ipc", 0>>
Buffers == EngineBuffers \cup {IpcBuffer} \cup {MergeBuffer(w) : w \in Weights}

Read(place, n) == [i \in 0..(n - 1) |-> mem[place[1]][place[2] + i]]

Written(place, bytes) ==
  [mem EXCEPT ![place[1]] = [i \in DOMAIN @ |->
     IF i - place[2] \in DOMAIN bytes THEN bytes[i - place[2]] ELSE @[i]]]

FreshMemory ==
  [b \in Buffers |->
     [i \in 0..((IF b = IpcBuffer THEN ipcBucket
                 ELSE IF b \in EngineBuffers THEN EngineBucket ELSE sizes[b[2]]) - 1) |-> Blank]]

TransferInit ==
  /\ sizes \in Models /\ ipcBucket \in IpcBuckets
  /\ mem = FreshMemory
  /\ sndPc = "fill" /\ nextChunk = 1 /\ fill = 0 /\ bucketMeta = <<>> /\ offset = 0
  /\ op = NoOp
  /\ rcvPc = "first" /\ recvBuf = 0 /\ posted = NoOp /\ metadata = NoOp /\ index = 1
  /\ arrived = NoOp
  /\ weight = NoOp /\ ipcMeta = <<>> /\ ipcOffset = 0
  /\ stream = <<>> /\ message = NoOp /\ loaded = <<>> /\ received = FALSE

-----------------------------------------------------------------------------
(* send_weights of rank 0 *)

\* The next chunk goes into the bucket, or the bucket is full, or it is the last.
FillBucket ==
  /\ sndPc = "fill"
  /\ \/ /\ nextChunk > Len(Chunks)
        /\ sndPc' = "last"
        /\ UNCHANGED <<nextChunk, bucketMeta, offset, mem>>
     \/ /\ nextChunk <= Len(Chunks)
        /\ offset + Chunks[nextChunk].size > EngineBucket
        /\ sndPc' = "full"
        /\ UNCHANGED <<nextChunk, bucketMeta, offset, mem>>
     \/ /\ nextChunk <= Len(Chunks)
        /\ LET c == Chunks[nextChunk] IN
           /\ offset + c.size <= EngineBucket
           /\ mem' = Written(<<<<"send", fill>>, offset>>,
                             [i \in 0..(c.size - 1) |-> Content(c.w)[c.chunkOffset + i]])
           /\ bucketMeta' = Append(bucketMeta, [chunk |-> c, offset |-> offset])
           /\ offset' = offset + c.size
        /\ nextChunk' = nextChunk + 1
        /\ UNCHANGED sndPc
  /\ UNCHANGED <<sizes, ipcBucket, fill, op, receiver, arrived, ipc, stream, message, worker>>

\* The bucket is broadcast, once the previous one has been, while the other
\* buffer is filled.
StartBroadcast ==
  /\ sndPc \in {"full", "last"} /\ op = NoOp
  /\ op' = [buffer |-> <<"send", fill>>, meta |-> bucketMeta, isLast |-> sndPc = "last"]
  /\ fill' = 1 - fill
  /\ bucketMeta' = <<>> /\ offset' = 0
  /\ sndPc' = IF sndPc = "last" THEN "finish" ELSE "fill"
  /\ UNCHANGED <<sizes, ipcBucket, mem, nextChunk, receiver, arrived, ipc, stream, message, worker>>

FinishSend ==
  /\ sndPc = "finish" /\ op = NoOp
  /\ sndPc' = "done"
  /\ UNCHANGED <<sizes, ipcBucket, mem, nextChunk, fill, bucketMeta, offset, op, receiver,
                 arrived, ipc, stream, message, worker>>

\* BroadcastOperation: once both sides take part.  The bytes are those that
\* the sender's buffer holds when the collective ends.
Broadcast ==
  /\ op # NoOp /\ posted # NoOp
  /\ mem' = [mem EXCEPT ![<<"recv", posted>>] = mem[op.buffer]]
  /\ arrived' = [meta |-> op.meta, isLast |-> op.isLast]
  /\ op' = NoOp /\ posted' = NoOp
  /\ UNCHANGED <<sizes, ipcBucket, sender, rcvPc, recvBuf, metadata, index, ipc, stream, message, worker>>

-----------------------------------------------------------------------------
(* _receive_weight_chunks *)

\* The operation for the next bucket is started before the current one is read.
PostReceive ==
  /\ rcvPc \in {"first", "post"} /\ message = NoOp
  /\ posted' = recvBuf
  /\ rcvPc' = IF rcvPc = "first" THEN "await" ELSE "yield"
  /\ UNCHANGED <<sizes, ipcBucket, mem, sender, op, recvBuf, metadata, index, arrived, ipc,
                 stream, message, worker>>

\* Defect: the copies from the current bucket are not waited for.
CopiesDoneUnchecked == TRUE

\* torch.cuda.synchronize()
CopiesDone == stream = <<>>

\* The next bucket is there, the copies from the current one have run, swap.
SwapBuffers ==
  /\ rcvPc = "await" /\ arrived # NoOp /\ CopiesDone /\ message = NoOp
  /\ metadata' = arrived /\ arrived' = NoOp /\ index' = 1
  /\ recvBuf' = 1 - recvBuf
  /\ rcvPc' = IF arrived.isLast THEN "yield" ELSE "post"
  /\ UNCHANGED <<sizes, ipcBucket, mem, sender, op, posted, ipc, stream, message, worker>>

\* merge_weight_chunks: a weight that fits into a bucket is a view of it, a
\* larger one is put together in a tensor of its own.
YieldChunk ==
  LET entry == metadata.meta[index]
      c == entry.chunk
      from == <<<<"recv", 1 - recvBuf>>, entry.offset>> IN
  /\ rcvPc = "yield" /\ weight = NoOp /\ index <= Len(metadata.meta) /\ message = NoOp
  /\ index' = index + 1
  /\ IF sizes[c.w] <= EngineBucket
     THEN weight' = [w |-> c.w, at |-> from] /\ UNCHANGED stream
     ELSE /\ stream' = Append(stream, [from |-> from, size |-> c.size,
                                       to |-> <<MergeBuffer(c.w), c.chunkOffset>>])
          /\ weight' = IF c.chunkOffset + c.size = sizes[c.w]
                       THEN [w |-> c.w, at |-> <<MergeBuffer(c.w), 0>>] ELSE NoOp
  /\ UNCHANGED <<sizes, ipcBucket, mem, sender, op, rcvPc, recvBuf, posted, metadata, arrived,
                 ipcMeta, ipcOffset, message, worker>>

EndOfBucket ==
  /\ rcvPc = "yield" /\ weight = NoOp /\ index > Len(metadata.meta) /\ message = NoOp
  /\ rcvPc' = IF metadata.isLast THEN "flush" ELSE "await"
  /\ UNCHANGED <<sizes, ipcBucket, mem, sender, op, recvBuf, posted, metadata, index, arrived,
                 ipc, stream, message, worker>>

-----------------------------------------------------------------------------
(* async_send_weights to the inference worker *)

Fits(w) == ipcOffset + sizes[w] <= ipcBucket

Send(entries, isLast) == message' = [entries |-> entries, isLast |-> isLast]

\* A full bucket is sent after synchronize; what follows waits for its ack.
SendBucket ==
  /\ weight # NoOp /\ message = NoOp /\ ~Fits(weight.w) /\ ipcMeta # <<>>
  /\ stream = <<>>
  /\ Send(ipcMeta, FALSE)
  /\ ipcMeta' = <<>> /\ ipcOffset' = 0
  /\ UNCHANGED <<sizes, ipcBucket, mem, sender, op, receiver, arrived, weight, stream, worker>>

\* _direct_send_large_weight: a handle, which waits for the device's event.
SendDirect ==
  /\ weight # NoOp /\ message = NoOp /\ ~Fits(weight.w) /\ ipcMeta = <<>>
  /\ stream = <<>>
  /\ Send(<<weight>>, FALSE)
  /\ weight' = NoOp
  /\ UNCHANGED <<sizes, ipcBucket, mem, sender, op, receiver, arrived, ipcMeta, ipcOffset, stream,
                 worker>>

\* buffer[...].copy_(weight, non_blocking=True)
PackWeight ==
  /\ weight # NoOp /\ message = NoOp /\ Fits(weight.w)
  /\ LET to == <<IpcBuffer, ipcOffset>> IN
     /\ stream' = Append(stream, [from |-> weight.at, size |-> sizes[weight.w], to |-> to])
     /\ ipcMeta' = Append(ipcMeta, [w |-> weight.w, at |-> to])
  /\ ipcOffset' = ipcOffset + sizes[weight.w]
  /\ weight' = NoOp
  /\ UNCHANGED <<sizes, ipcBucket, mem, sender, op, receiver, arrived, message, worker>>

\* Defect: an empty last bucket is not sent.
SendLastNonEmpty ==
  /\ rcvPc = "flush" /\ message = NoOp /\ stream = <<>>
  /\ IF ipcMeta # <<>> THEN Send(ipcMeta, TRUE) ELSE UNCHANGED message
  /\ ipcMeta' = <<>> /\ ipcOffset' = 0
  /\ rcvPc' = "done"
  /\ UNCHANGED <<sizes, ipcBucket, mem, sender, op, recvBuf, posted, metadata, index, arrived,
                 weight, stream, worker>>

\* The last bucket, empty or not.
SendLast ==
  /\ rcvPc = "flush" /\ message = NoOp /\ stream = <<>>
  /\ Send(ipcMeta, TRUE)
  /\ ipcMeta' = <<>> /\ ipcOffset' = 0
  /\ rcvPc' = "done"
  /\ UNCHANGED <<sizes, ipcBucket, mem, sender, op, recvBuf, posted, metadata, index, arrived,
                 weight, stream, worker>>

\* The device runs its copies in order.
RunCopy ==
  /\ stream # <<>>
  /\ LET copy == Head(stream) IN mem' = Written(copy.to, Read(copy.from, copy.size))
  /\ stream' = Tail(stream)
  /\ UNCHANGED <<sizes, ipcBucket, sender, op, receiver, arrived, ipc, message, worker>>

\* BucketedWeightReceiver: loads the bucket, synchronizes, acknowledges.
Load ==
  /\ message # NoOp
  /\ loaded' = loaded \o [i \in DOMAIN message.entries |->
       LET entry == message.entries[i] IN
       [w |-> entry.w, bytes |-> Read(entry.at, sizes[entry.w])]]
  /\ received' = message.isLast
  /\ message' = NoOp
  /\ UNCHANGED <<sizes, ipcBucket, mem, sender, op, receiver, arrived, ipc, stream>>

SendStep == FillBucket \/ StartBroadcast \/ FinishSend
ReceiveStep ==
  \/ PostReceive \/ SwapBuffers \/ YieldChunk \/ EndOfBucket
  \/ SendBucket \/ SendDirect \/ PackWeight \/ SendLast

TransferNext == SendStep \/ Broadcast \/ ReceiveStep \/ RunCopy \/ Load

TransferSpec == TransferInit /\ [][TransferNext]_transferVars

-----------------------------------------------------------------------------
(* Properties *)

\* Whatever buckets a weight crosses, and however late the copies run, the
\* inference worker loads the weights of the model in order, each once, and
\* with the bytes that the trainer sent.
WeightsIntact ==
  /\ Len(loaded) <= Len(sizes)
  /\ \A i \in DOMAIN loaded : loaded[i] = [w |-> i, bytes |-> Content(i)]
  /\ received => Len(loaded) = Len(sizes)

\* A transfer that has begun ends, on all three sides.
TransferCompletes == posted # NoOp ~> (sndPc = "done" /\ rcvPc = "done" /\ received)
=============================================================================
