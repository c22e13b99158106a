------------------------------- MODULE Binding -------------------------------
(***************************************************************************)
(* The binding of request parameters to the fields of an API handler       *)
(* (api/api_handler.go, api/handler.go, api/param.go) and the conversion   *)
(* of values it uses (utility/convert.go).  NewApi takes the parameters    *)
(* from the tags of a struct; every request is bound into that one struct, *)
(* field by field, each validated after it is set, and then served by it.  *)
(*                                                                         *)
(* The value of a field is the sequence of what was stored into it, empty  *)
(* for the zero value, of length one for a scalar.                         *)
(***************************************************************************)
EXTENDS Naturals, Sequences, FiniteSets, SequencesExt

CONSTANTS
    Handlings, \* requests in progress at one time
    Structs,   \* structs that are made an API, as sequences of tagged fields
    Values,    \* what parameters may hold
    Limit,     \* values over it break the rule of a field that has one
    Bad,       \* a value that is no number
    MaxLength  \* elements that a field collects, at most

VARIABLES
    api,           \* the parameters of the API, or << >> if NewApi refused the struct
    defaultValues, \* whether its defaults are used and could be encoded
    bodydecoder,   \* "Decode" of the handler, or else "default"
    receiver,      \* rawStructPointer: by parameter, the value of its field
    handling,      \* the requests
    overlaps       \* requests that were not alone while they were bound and served

bindingVars == <<api, defaultValues, bodydecoder, receiver, handling, overlaps>>
apiVars == <<api, defaultValues, bodydecoder>>

Positions == {"path", "query", "formData", "body", "header", "cookie"}
FileKinds == {"file", "files"}

\* A field: where it is in the request, its type, its default and the tags `required`,
\* `notempty` and `range`.  A scalar is a number.
Field(in, kind, default, required, notempty, range) ==
    [in |-> in, kind |-> kind, default |-> default, required |-> required,
     notempty |-> notempty, range |-> range]

\* Whether addFields takes the tags of a struct: files are form data, form data and a
\* body do not go together, there is one body, and only numbers have a range.
TagsAgree(fields) ==
    /\ \A i \in DOMAIN fields :
           /\ fields[i].in \in Positions
           /\ fields[i].kind \in FileKinds => fields[i].in = "formData" /\ ~ fields[i].range
           /\ fields[i].kind = "strings" => ~ fields[i].range
    /\ ~ \E i, j \in DOMAIN fields : fields[i].in = "formData" /\ fields[j].in = "body"
    /\ Cardinality({i \in DOMAIN fields : fields[i].in = "body"}) <= 1

\* A wrong Required for MissingIsRefused: the tag alone.
RequiredByTag(f) == f.required

\* A parameter is required if it says so, or is in the path, or has a rule that the
\* zero value would break.
Required(f) == f.required \/ f.in = "path" \/ f.notempty \/ f.range

\* NewApi.
NewApi(struct) ==
    IF TagsAgree(struct)
    THEN [i \in DOMAIN struct |-> [struct[i] EXCEPT !.required = Required(struct[i])]]
    ELSE << >>

\* A request: the parameters bound so far, as they are in it, whether it has a multipart
\* form, and the fields that its handler sees.
NoRequestBound == [at |-> "none", input |-> << >>, multipart |-> FALSE, seen |-> << >>]

BindingInit ==
    /\ \E struct \in Structs : api = NewApi(struct)
    /\ defaultValues \in BOOLEAN /\ (defaultValues => \E i \in DOMAIN api : api[i].default # << >>)
    /\ bodydecoder \in {"Decode", "default"}
    /\ bodydecoder = "Decode" => \E i \in DOMAIN api : api[i].in = "body"
    /\ receiver = [i \in DOMAIN api |-> api[i].default]
    /\ handling = [h \in Handlings |-> NoRequestBound]
    /\ overlaps = {}

-----------------------------------------------------------------------------
Result(ok, value) == [ok |-> ok, value |-> value]

\* A wrong ConvertAssign for BoundAsSent: all values of a parameter go into a scalar.
ConvertAssignLast(kind, old, src) ==
    CASE src = << >> -> Result(TRUE, old)
      [] kind = "scalar" -> Result(src[1] # Bad, IF src[1] = Bad THEN old ELSE <<src[Len(src)]>>)
      [] kind = "strings" -> Result(TRUE, src)
      [] OTHER -> Result(FALSE, old)

\* ConvertAssign: a scalar takes the first value, strings are replaced, numbers are
\* appended to what is there up to one that is none, and nothing goes into a file.
ConvertAssign(kind, old, src) ==
    LET numbers == SelectInSeq(src, LAMBDA v : v = Bad)
    IN  CASE src = << >> -> Result(TRUE, old)
          [] kind = "scalar" -> Result(src[1] # Bad, IF src[1] = Bad THEN old ELSE <<src[1]>>)
          [] kind = "strings" -> Result(TRUE, src)
          [] kind = "numbers" /\ numbers = 0 -> Result(TRUE, old \o src)
          [] kind = "numbers" /\ numbers # 0 -> Result(FALSE, old \o SubSeq(src, 1, numbers - 1))
          [] OTHER -> Result(FALSE, old)

\* An uploaded file: a single one that is missing panics, which is an error, and of a
\* required one a form value is asked besides.
BindFile(p, old, input) ==
    LET stored == IF input.multipart THEN input.src ELSE old
        missing == input.src = << >> /\ (p.required \/ (input.multipart /\ p.kind = "file"))
    IN  IF missing THEN Result(FALSE, old) ELSE Result(~ p.required, stored)

\* Form data: a value in a multipart form is assigned from the multipart form and
\* again from the post form, which includes it.
BindForm(p, old, input) ==
    LET once == ConvertAssign(p.kind, old, input.src)
        twice == IF input.multipart /\ once.ok THEN ConvertAssign(p.kind, once.value, input.src)
                                               ELSE once
    IN  Result(twice.ok /\ (input.src = << >> => ~ p.required), twice.value)

\* A body, empty if it is or if it cannot be read, which is an error if it is required.
\* The handler's Decode may accept an empty one, and converts others as ConvertAssign
\* does.  The default decoder has no pointer to decode into, and refuses every body.
BindBody(p, old, src) ==
    CASE src # << >> /\ bodydecoder = "Decode" -> {ConvertAssign(p.kind, old, src)}
      [] src = << >> /\ (bodydecoder = "Decode" \/ ~ p.required) -> {Result(ok, old) : ok \in BOOLEAN}
      [] OTHER -> {Result(FALSE, old)}

\* One parameter of BindFields, before it is validated, what may come of it: a missing
\* one is an error if it is required.
BindField(p, old, input) ==
    CASE p.kind \in FileKinds -> {BindFile(p, old, input)}
      [] p.in = "formData" /\ p.kind \notin FileKinds -> {BindForm(p, old, input)}
      [] p.in = "body" -> BindBody(p, old, input.src)
      [] OTHER -> {IF input.src = << >> THEN Result(~ p.required, old)
                                        ELSE ConvertAssign(p.kind, old, input.src)}

\* validate: every element of the field follows its rules.
validate(p, value) ==
    \A i \in 1 .. Len(value) : (p.range => value[i] <= Limit) /\ (p.notempty => value[i] # 0)

-----------------------------------------------------------------------------
InProgress == {h \in Handlings : handling[h].at \in {"bind", "validate", "serve"}}


\* Serve takes the parameters of the path and calls BindNew.  NewReceiver is the
\* struct itself: decoding the defaults, if they are used, sets those fields that have
\* one, and leaves the others as the last request left them.
NewReceiver(h, multipart) ==
    /\ handling[h].at = "none"
    /\ api # << >>
    /\ multipart => \E i \in DOMAIN api : api[i].in = "formData"
    /\ \A i \in DOMAIN api : Len(receiver[i]) < MaxLength
    /\ receiver' = [i \in DOMAIN api |->
                       IF defaultValues /\ api[i].default # << >> THEN api[i].default ELSE receiver[i]]
    /\ handling' = [handling EXCEPT ![h] = [NoRequestBound EXCEPT !.at = "bind", !.multipart = multipart]]
    /\ overlaps' = IF InProgress = {} THEN overlaps \ {h} ELSE overlaps \cup InProgress \cup {h}
    /\ UNCHANGED apiVars

\* What a request may have for a parameter; files come in a multipart form.
Inputs(p, multipart) ==
    {[src |-> v, multipart |-> multipart] :
        v \in IF p.kind \in FileKinds /\ ~ multipart THEN {<< >>} ELSE Values}

\* The next parameter, src in the request, is stored into its field; an error refuses
\* the request.
Bind(h) ==
    /\ handling[h].at = "bind"
    /\ LET i == Len(handling[h].input) + 1
       IN  \E input \in Inputs(api[i], handling[h].multipart) :
               \E bound \in BindField(api[i], receiver[i], input) :
                   /\ receiver' = [receiver EXCEPT ![i] = bound.value]
                   /\ handling' = [handling EXCEPT ![h].input = Append(@, input.src),
                                      ![h].at = IF bound.ok THEN "validate" ELSE "refused"]
    /\ UNCHANGED <<apiVars, overlaps>>

\* The field is validated, as it is by now.
Validate(h) ==
    /\ handling[h].at = "validate"
    /\ LET i == Len(handling[h].input)
       IN  handling' = [handling EXCEPT
               ![h].at = CASE ~ validate(api[i], receiver[i]) -> "refused"
                           [] i = Len(api) -> "serve"
                           [] OTHER -> "bind"]
    /\ UNCHANGED <<apiVars, receiver, overlaps>>

\* The Serve method of the struct sees its fields.
Serve(h) ==
    /\ handling[h].at = "serve"
    /\ handling' = [handling EXCEPT ![h].at = "served", ![h].seen = receiver]
    /\ UNCHANGED <<apiVars, receiver, overlaps>>

\* The request has been answered, by the handler or by 400 and Abort.
Answered(h) ==
    /\ handling[h].at \in {"served", "refused"}
    /\ handling' = [handling EXCEPT ![h] = NoRequestBound]
    /\ overlaps' = overlaps \ {h}
    /\ UNCHANGED <<apiVars, receiver>>

BindingNext ==
    \E h \in Handlings :
        \/ \E multipart \in BOOLEAN : NewReceiver(h, multipart)
        \/ Bind(h) \/ Validate(h) \/ Serve(h) \/ Answered(h)

-----------------------------------------------------------------------------
Served(h) == handling[h].at = "served"
Sent(h, i) == handling[h].input[i]

\* The scalars and strings that a request sends are what its handler sees, and
\* everything it sees follows the rules of the fields.
SeesOwn(h) ==
    Served(h) =>
        \A i \in DOMAIN api :
            LET seen == handling[h].seen[i]
                sent == Sent(h, i)
            IN  /\ api[i].kind = "scalar" /\ sent # << >> => seen = <<sent[1]>>
                /\ api[i].kind = "strings" /\ sent # << >> => seen = sent
                /\ \A k \in DOMAIN seen :
                       (api[i].range => seen[k] <= Limit) /\ (api[i].notempty => seen[k] # 0)

\* The handler of a request that was bound and served while no other request used the
\* same API sees the values that were sent, and valid ones where nothing was sent,
\* however many requests were bound into its struct before and however they failed
\* (BindFields, NewReceiver, ConvertAssign, validate).
BoundAsSent == \A h \in Handlings : h \notin overlaps => SeesOwn(h)

\* A request without a parameter that is in the path, is tagged as required or has a
\* rule that its zero value breaks, is never served, whatever other requests store
\* into the struct meanwhile (addFields, BindFields).  Not so of a body: an empty one is
\* decoded, and it is up to the handler's Decode to refuse it.
MissingIsRefused ==
    \A h \in Handlings : Served(h) =>
        \A i \in DOMAIN api :
            /\ api[i].in # "body"
            /\ api[i].required \/ api[i].in = "path" \/ api[i].notempty \/ api[i].range
            => Sent(h, i) # << >>

=============================================================================
