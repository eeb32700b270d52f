----------------------------- MODULE TraceEvent -----------------------------
(***************************************************************************)
(* The content of one trace event on its way from a hook to the output:    *)
(* the builder (InitializeTraceEvent, AddTrace*, AppendTraceField and      *)
(* CaptureTraceBuffer of trace_transport.cpp) writes it into memory field  *)
(* by field, EmitTraceEvent copies its used part over whatever the slot    *)
(* held, TryReadRing copies the whole slot, and ParseTraceEvent            *)
(* (trace_renderer.cpp) reads it back, first to accept it and then to      *)
(* render it.                                                              *)
(*                                                                         *)
(* Memory is a sequence of cells.  A structure is one cell, since it is    *)
(* copied whole; a name or a value takes as many cells as it has bytes.    *)
(***************************************************************************)
EXTENDS Naturals, Sequences, FiniteSets, SequencesExt

CONSTANTS
  EventCells,      \* sizeof(TraceEvent), 1024
  MaxNameCells,    \* TRACE_MAX_*_NAME_BYTES, 63
  MaxBufferCells,  \* TRACE_MAX_BUFFER_BYTES, 64
  Scalars,         \* scalar field type -> size of its value
  Modules, Apis,   \* the names of the APIs hooked
  ScalarOffers,    \* the fields hooks add: [type, name]
  BooleanOffers,   \* the Boolean fields hooks add: their names
  BufferOffers,    \* the previews hooks add: [name, length of the buffer]
  MaxOffers,       \* bound: fields a hook adds to one event
  MaxEvents        \* bound: events through the slot

\* A string: whose text it is, its length, and as which names it is spelled
\* with permitted characters.
Texts == Modules \union Apis \union BooleanOffers
           \union {offer.name : offer \in ScalarOffers \union BufferOffers}

ASSUME EventAssumption == EventCells \in Nat /\ EventCells > 2 * MaxNameCells
ASSUME BoundAssumption == MaxOffers \in Nat /\ MaxEvents \in Nat
ASSUME NameAssumption == MaxNameCells \in Nat \ {0} /\ MaxBufferCells \in Nat \ {0}
ASSUME TextAssumption ==
  \A s \in Texts : /\ s = [text |-> s.text, length |-> s.length, spelled |-> s.spelled]
                   /\ s.length \in Nat /\ s.spelled \subseteq {"module", "api", "field"}
ASSUME ScalarAssumption ==
  /\ \A t \in DOMAIN Scalars : t \notin {"Bytes", "Boolean"} /\ Scalars[t] \in Nat \ {0}
  /\ \A offer \in ScalarOffers : offer.type \in DOMAIN Scalars
  /\ \A offer \in BufferOffers : offer.length \in Nat

VARIABLES
  event,     \* the hook's TraceEvent, on its stack
  slot,      \* slot->event, in the shared ring
  phase,     \* "idle", "building", "published" or "received"
  received,  \* what the controller made of the last event
  offers,    \* history: the fields the hook offered for this event
  emitted    \* history: how many events were published

vars == <<event, slot, phase, received, offers, emitted>>

-----------------------------------------------------------------------------
(* Memory.                                                                 *)

Zero == [kind |-> "zero"]
Chars(s) == [i \in 1..s.length |-> [kind |-> "char", text |-> s.text, at |-> i, spelled |-> s.spelled]]
FieldHeader(type, nameLength, valueSize) ==
  [kind |-> "field", type |-> type, nameLength |-> nameLength, valueSize |-> valueSize]

HeaderCells == 1
Blank == [i \in 1..(EventCells - HeaderCells) |-> Zero]
NoHeader == [magic |-> FALSE, size |-> 0, flags |-> {}, fieldCount |-> 0,
             moduleNameLength |-> 0, apiNameLength |-> 0]

NameCells(ev) == ev.header.moduleNameLength + ev.header.apiNameLength
Overlay(payload, at, cells) ==
  [i \in DOMAIN payload |-> IF i \in (at + 1)..(at + Len(cells)) THEN cells[i - at] ELSE payload[i]]

\* The cursor before each field, and behind the last: from header to header.
\* A cell that holds no field header leads out of the event.
FieldStarts(ev) ==
  LET Start[i \in 1..(ev.header.fieldCount + 1)] ==
        IF i = 1 THEN NameCells(ev)
        ELSE LET at == Start[i - 1]
             IN IF at \in 0..(EventCells - HeaderCells - 1) /\ ev.payload[at + 1].kind = "field"
                THEN at + 1 + ev.payload[at + 1].nameLength + ev.payload[at + 1].valueSize
                ELSE EventCells
  IN Start
FieldName(ev, at) == SubSeq(ev.payload, at + 2, at + 1 + ev.payload[at + 1].nameLength)
FieldValue(ev, at) ==
  LET h == ev.payload[at + 1]
  IN SubSeq(ev.payload, at + 2 + h.nameLength, at + 1 + h.nameLength + h.valueSize)

-----------------------------------------------------------------------------
(* The builder.                                                            *)

IsValidName(s, kind) == s.length \in 1..MaxNameCells /\ kind \in s.spelled

HasTraceField(ev, name) ==
  \E i \in 1..ev.header.fieldCount : FieldName(ev, FieldStarts(ev)[i]) = Chars(name)

Flag(ev, flag) == [ev EXCEPT !.header.flags = @ \union {flag}]

AppendCells(ev, cells) ==
  [ev EXCEPT !.payload = Overlay(@, ev.header.size - HeaderCells, cells),
             !.header.size = @ + Len(cells),
             !.header.fieldCount = @ + 1]

AppendRepeated(ev, type, name, value) ==  \* defect: a repeated name is not looked for
  LET cells == <<FieldHeader(type, name.length, Len(value))>> \o Chars(name) \o value
  IN IF ~ev.header.magic THEN Flag(ev, "FieldError")
     ELSE IF ~IsValidName(name, "field") THEN Flag(ev, "FieldError")
     ELSE IF ev.header.size + Len(cells) > EventCells THEN Flag(ev, "Truncated")
     ELSE AppendCells(ev, cells)

AppendTraceField(ev, type, name, value) ==
  LET cells == <<FieldHeader(type, name.length, Len(value))>> \o Chars(name) \o value
  IN IF ~ev.header.magic THEN Flag(ev, "FieldError")
     ELSE IF ~IsValidName(name, "field") \/ HasTraceField(ev, name) THEN Flag(ev, "FieldError")
     ELSE IF ev.header.size + Len(cells) > EventCells THEN Flag(ev, "Truncated")
     ELSE AppendCells(ev, cells)

Init ==
  /\ event = [header |-> NoHeader, payload |-> Blank]
  /\ slot = [header |-> NoHeader, payload |-> Blank]
  /\ phase = "idle" /\ received = <<>> /\ offers = <<>> /\ emitted = 0

InitializedUncleared(module, api) ==  \* defect: the event is not zeroed first
  [header |-> [NoHeader EXCEPT !.magic = TRUE,
                               !.flags = event.header.flags,
                               !.size = HeaderCells + module.length + api.length,
                               !.moduleNameLength = module.length,
                               !.apiNameLength = api.length],
   payload |-> Overlay(event.payload, 0, Chars(module) \o Chars(api))]

Initialized(module, api) ==
  IF IsValidName(module, "module") /\ IsValidName(api, "api")
  THEN [header |-> [NoHeader EXCEPT !.magic = TRUE,
                                    !.size = HeaderCells + module.length + api.length,
                                    !.moduleNameLength = module.length,
                                    !.apiNameLength = api.length],
        payload |-> Overlay(Blank, 0, Chars(module) \o Chars(api))]
  ELSE [header |-> [NoHeader EXCEPT !.flags = {"FieldError"}], payload |-> Blank]

InitializeTraceEvent(module, api) ==
  /\ phase \in {"idle", "received"} /\ emitted < MaxEvents
  /\ event' = Initialized(module, api)
  /\ phase' = "building" /\ offers' = <<>> /\ received' = <<>>
  /\ UNCHANGED <<slot, emitted>>

\* What a value is does not matter, only which offer of which event it is.
Cells(n) == [i \in 1..n |-> [kind |-> "value", event |-> emitted, offer |-> Len(offers) + 1, at |-> i]]

Offer(type, name, value) ==
  /\ phase = "building" /\ Len(offers) < MaxOffers
  /\ event' = AppendTraceField(event, type, name, value)
  /\ offers' = Append(offers, [type |-> type, name |-> name, value |-> value])
  /\ UNCHANGED <<slot, phase, received, emitted>>

\* AddTracePointer, AddTraceUInt32 and the others: one size per type.
AddTraceScalar(type, name) == Offer(type, name, Cells(Scalars[type]))

\* The one scalar of which the parser looks at more than the size.
AddTraceBoolean(name, encoded) ==
  Offer("Boolean", name, <<[kind |-> "boolean", encoded |-> encoded]>>)

\* CaptureTraceBuffer: how much of the buffer the bypass could read is up to
\* the target's memory; a null buffer or a zero length is not read at all.
CaptureLength(length) == IF length < MaxBufferCells THEN length ELSE MaxBufferCells
AddTraceBufferPreview(name, length, captured) ==
  /\ captured <= CaptureLength(length)
  /\ Offer("Bytes", name,
           <<[kind |-> "bytes", requested |-> length, captured |-> captured]>> \o Cells(captured))

-----------------------------------------------------------------------------
(* The slot.                                                               *)

CopyNoHeader(ev, old) ==  \* defect: the length of the copy leaves the header out
  [header |-> ev.header, payload |-> Overlay(old.payload, 0, SubSeq(ev.payload, 1, ev.header.size - 2))]

\* CustomMemCpy(&slot->event, event, event->header.size)
CopyToSlot(ev, old) ==
  [header |-> ev.header,
   payload |-> Overlay(old.payload, 0, SubSeq(ev.payload, 1, ev.header.size - HeaderCells))]

EmitTraceEvent ==
  /\ phase = "building"
  /\ IF event.header.magic /\ event.header.size \in (HeaderCells + NameCells(event))..EventCells
     THEN slot' = CopyToSlot(event, slot) /\ phase' = "published" /\ emitted' = emitted + 1
     ELSE phase' = "idle" /\ UNCHANGED <<slot, emitted>>
  /\ UNCHANGED <<event, received, offers>>

-----------------------------------------------------------------------------
(* The controller.                                                         *)

IsSpelled(cells, kind) ==
  /\ Len(cells) \in 1..MaxNameCells
  /\ \A i \in DOMAIN cells : cells[i].kind = "char" /\ kind \in cells[i].spelled

HasExpectedValueSize(type, value) ==
  IF type = "Bytes"
  THEN /\ Len(value) >= 1 /\ value[1].kind = "bytes"
       /\ value[1].captured <= MaxBufferCells
       /\ value[1].captured <= value[1].requested
       /\ Len(value) = 1 + value[1].captured
  ELSE IF type = "Boolean"
  THEN Len(value) = 1 /\ value[1].kind = "boolean" /\ value[1].encoded \in {0, 1}
  ELSE type \in DOMAIN Scalars => Len(value) = Scalars[type]

\* The field at this cursor lies within the event and is well formed.
FieldParses(ev, at) ==
  LET end == ev.header.size - HeaderCells
  IN /\ at < end /\ ev.payload[at + 1].kind = "field"
     /\ at + 1 + ev.payload[at + 1].nameLength + ev.payload[at + 1].valueSize <= end
     /\ IsSpelled(FieldName(ev, at), "field")
     /\ HasExpectedValueSize(ev.payload[at + 1].type, FieldValue(ev, at))

\* ParseTraceEvent: whether it accepts an event, and the fields it reads.
ParseAccepts(ev) ==
  LET starts == FieldStarts(ev)
  IN /\ ev.header.magic
     /\ ev.header.size \in (HeaderCells + NameCells(ev))..EventCells
     /\ IsSpelled(SubSeq(ev.payload, 1, ev.header.moduleNameLength), "module")
     /\ IsSpelled(SubSeq(ev.payload, ev.header.moduleNameLength + 1, NameCells(ev)), "api")
     /\ \A i \in 1..ev.header.fieldCount : FieldParses(ev, starts[i])
     /\ \A i, j \in 1..ev.header.fieldCount :
          i # j => FieldName(ev, starts[i]) # FieldName(ev, starts[j])
     /\ starts[ev.header.fieldCount + 1] = ev.header.size - HeaderCells
ParsedFields(ev) ==
  [i \in 1..ev.header.fieldCount |->
     LET at == FieldStarts(ev)[i]
     IN [type |-> ev.payload[at + 1].type, name |-> FieldName(ev, at), value |-> FieldValue(ev, at)]]

\* RenderEvent writes the fields in order, then the flags; a preview ends
\* in "..." when the buffer was longer.
Shown(field) ==
  [name |-> field.name,
   value |-> IF field.type = "Bytes" THEN Tail(field.value) ELSE field.value,
   cut |-> field.type = "Bytes" /\ field.value[1].captured < field.value[1].requested]
Rendered(ev) ==
  [fields |-> [i \in 1..ev.header.fieldCount |-> Shown(ParsedFields(ev)[i])],
   truncated |-> "Truncated" \in ev.header.flags,
   fieldError |-> "FieldError" \in ev.header.flags]

\* TryReadRing copies the slot, queueEvent ignores what does not parse, and
\* the writer renders the rest.
ReceiveEvent ==
  /\ phase = "published"
  /\ received' = IF ParseAccepts(slot) THEN <<Rendered(slot)>> ELSE <<>>
  /\ phase' = "received"
  /\ UNCHANGED <<event, slot, offers, emitted>>

Next ==
  \/ \E module \in Modules, api \in Apis : InitializeTraceEvent(module, api)
  \/ \E offer \in ScalarOffers : AddTraceScalar(offer.type, offer.name)
  \/ \E name \in BooleanOffers, encoded \in {0, 1} : AddTraceBoolean(name, encoded)
  \/ \E offer \in BufferOffers, captured \in 0..MaxBufferCells :
       AddTraceBufferPreview(offer.name, offer.length, captured)
  \/ EmitTraceEvent
  \/ ReceiveEvent

Spec == Init /\ [][Next]_vars

-----------------------------------------------------------------------------
(* Properties.                                                             *)

\* The values of the variables; the event never outgrows its memory.
EventTypeOK ==
  /\ \A ev \in {event, slot} :
       /\ ev.header.size \in 0..EventCells
       /\ ev.header.magic => ev.header.size >= HeaderCells + NameCells(ev)
       /\ ev.header.flags \subseteq {"Truncated", "FieldError"}
       /\ ev.header.fieldCount \in 0..MaxOffers
       /\ DOMAIN ev.payload = 1..(EventCells - HeaderCells)
  /\ phase \in {"idle", "building", "published", "received"}
  /\ Len(offers) <= MaxOffers /\ emitted \in 0..MaxEvents
  /\ Len(received) <= 1 /\ (received # <<>> => phase = "received")

\* Which of some offers belong in an event with that much room for fields, said
\* without its memory: those with a valid name that no earlier field of the
\* event has, that fit behind the earlier fields; a later, smaller one may
\* still fit.
Weight(offer) == 1 + offer.name.length + Len(offer.value)
Filled(list, K) ==
  LET Sum[i \in 0..Len(list)] ==
        IF i = 0 THEN 0 ELSE Sum[i - 1] + (IF i \in K THEN Weight(list[i]) ELSE 0)
  IN Sum
Well(offer) == IsValidName(offer.name, "field")
Fresh(list, i, K) == \A j \in K : j < i => list[j].name # list[i].name
Fits(list, i, K, room) == Filled(list, K)[i - 1] + Weight(list[i]) <= room
KeptOf(list, room) == CHOOSE K \in SUBSET DOMAIN list :
  \A i \in DOMAIN list : i \in K <=> Well(list[i]) /\ Fresh(list, i, K) /\ Fits(list, i, K, room)

Room == EventCells - HeaderCells - NameCells(event)
Kept == KeptOf(offers, Room)

\* Builder and parser agree, though each has its own checks: an event whose
\* names were valid is published, and every published event is accepted,
\* also when it exactly fills its memory or lies over a longer one.  The
\* event never outgrows its memory.
EveryEventAccepted ==
  /\ EventTypeOK
  /\ phase = "idle" => ~event.header.magic
  /\ phase = "received" => received # <<>>

\* The rendered fields are exactly the offers that belong in the event, in
\* the order of the calls, with the values of this event: never bytes that an
\* earlier event left in the slot or on the stack, never more of a buffer
\* than was read of it, and "..." whenever that is not the whole buffer.
RenderedAsOffered ==
  \A shown \in Range(received) :
    /\ Len(shown.fields) = Cardinality(Kept)
    /\ \A i \in Kept :
         LET field == shown.fields[Cardinality({j \in Kept : j <= i})]
             preview == offers[i].type = "Bytes"
         IN /\ field.name = Chars(offers[i].name)
            /\ field.value = IF preview THEN Tail(offers[i].value) ELSE offers[i].value
            /\ field.cut <=> preview /\ Len(offers[i].value) - 1 # offers[i].value[1].requested

\* A field that is missing is told: the rendered event says "truncated" when
\* one did not fit, and "field error" when one had a bad or repeated name,
\* and neither otherwise.
FlagsTellMissing ==
  \A shown \in Range(received) :
    /\ shown.truncated <=>
         \E i \in DOMAIN offers \ Kept : Well(offers[i]) /\ Fresh(offers, i, Kept)
    /\ shown.fieldError <=>
         \E i \in DOMAIN offers : ~Well(offers[i]) \/ ~Fresh(offers, i, Kept)
=============================================================================
