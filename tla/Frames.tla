-------------------------------- MODULE Frames --------------------------------
(***************************************************************************)
(* Which JSON objects the client reads as frames.  An object is its type,  *)
(* its variant if its type has variants (the method of an extension's      *)
(* request, the type of an assistant message event), and the names of its  *)
(* fields: those of the shape the client wants, and those of another.  The *)
(* fields of the event in a message_update are counted with the frame's.   *)
(***************************************************************************)
CONSTANT NotAnObject    \* a text that is no JSON object

Object == [type : STRING, variant : STRING, fields : SUBSET STRING, odd : SUBSET STRING]
Text == Object \cup {NotAnObject}

ASSUME FramesAssumption == NotAnObject \notin Object

\* The fields a frame needs, and those it may do without but not with another shape.
Typed(need, may) == [need |-> need, may |-> may]

TransportFrames ==
  [ready |-> Typed({"protocolVersion", "supportedProtocolVersions", "maxFrameBytes",
                    "maxReassembledFrameBytes"}, {}),
   rpc_chunk |-> Typed({"chunkId", "index", "count", "byteLength", "data"}, {}),
   rpc_frame_error |-> Typed({"error"}, {"originalType"}),
   response |-> Typed({"command", "success"}, {"id", "error", "code"})]

ToolFrames ==
  [tool_execution_start |-> Typed({"toolCallId", "toolName", "args"}, {"intent"}),
   tool_execution_update |-> Typed({"toolCallId", "toolName", "args", "partialResult"}, {}),
   tool_execution_end |-> Typed({"toolCallId", "toolName", "result"}, {"isError"})]

SessionFrames ==
  [agent_end |-> Typed({"messages"}, {"isTerminal"}),
   turn_end |-> Typed({"message"}, {}),
   notice |-> Typed({"level", "message"}, {"source"}),
   prompt_result |-> Typed({"agentInvoked"}, {"id"})]

HostFrames ==
  [host_tool_call |-> Typed({"id", "toolCallId", "toolName", "arguments"}, {}),
   host_tool_cancel |-> Typed({"id", "targetId"}, {}),
   host_uri_request |-> Typed({"id", "operation", "url"}, {"content"}),
   host_uri_cancel |-> Typed({"id", "targetId"}, {}),
   subagent_lifecycle |-> Typed({"payload"}, {}),
   subagent_progress |-> Typed({"payload"}, {}),
   subagent_event |-> Typed({"payload"}, {})]

TypedFrames == {TransportFrames, ToolFrames, SessionFrames, HostFrames}

\* The assistant message events, and the methods of an extension's requests, with
\* the fields each needs.  A field it may do without is read with any shape.
AssistantMessageEvent ==
  [start |-> {}, done |-> {"reason"}, error |-> {"reason"},
   text_start |-> {"contentIndex"}, text_delta |-> {"contentIndex", "delta"},
   text_end |-> {"contentIndex", "content"},
   thinking_start |-> {"contentIndex"}, thinking_delta |-> {"contentIndex", "delta"},
   thinking_end |-> {"contentIndex", "content"},
   image_end |-> {"contentIndex"}, toolcall_start |-> {"contentIndex"},
   toolcall_delta |-> {"contentIndex", "delta"}, toolcall_end |-> {"contentIndex"}]

ExtensionUiMethod ==
  [select |-> {"title"}, confirm |-> {"title", "message"}, input |-> {"title"},
   editor |-> {"title"}, cancel |-> {"targetId"}, notify |-> {"message"},
   setStatus |-> {"statusKey"}, setWidget |-> {"widgetKey"}, setTitle |-> {"title"},
   set_editor_text |-> {"text"}, open_url |-> {"url"}]

\* Slip: a variant the client does not know is an error.
KnownVariantOnly(o, variants) == o.variant \in DOMAIN variants /\ variants[o.variant] \subseteq o.fields

\* A variant the client does not know needs nothing.
VariantReads(o, variants) == o.variant \in DOMAIN variants => variants[o.variant] \subseteq o.fields

\* decode_incoming.
IsFrame(o) ==
  /\ o.type = "message_update" =>
       "assistantMessageEvent" \in o.fields /\ VariantReads(o, AssistantMessageEvent)
  /\ o.type = "extension_ui_request" =>
       "id" \in o.fields /\ VariantReads(o, ExtensionUiMethod)
  /\ \A frames \in TypedFrames :
       o.type \in DOMAIN frames =>
         LET frame == frames[o.type] IN frame.need \subseteq o.fields /\ frame.may \cap o.odd = {}

\* What a text reads as: a frame, an object that is none, or no JSON object at all.
Reads(text) == IF text = NotAnObject THEN "garbage"
               ELSE IF IsFrame(text) THEN "frame" ELSE "untyped"

-----------------------------------------------------------------------------
\* An object of a type, a method or an event that a later omp may add, which the wire
\* model promises to read (frames.rs, "a future OMP variant never causes a decode failure").
FutureFrame(text) ==
  /\ text # NotAnObject
  /\ \/ /\ \A frames \in TypedFrames : text.type \notin DOMAIN frames
        /\ text.type \notin {"message_update", "extension_ui_request"}
     \/ /\ text.type = "extension_ui_request" /\ "id" \in text.fields
        /\ text.variant \notin DOMAIN ExtensionUiMethod
     \/ /\ text.type = "message_update" /\ "assistantMessageEvent" \in text.fields
        /\ text.variant \notin DOMAIN AssistantMessageEvent
=============================================================================
