------------------------------ MODULE MapFrame ------------------------------
(***************************************************************************)
(* What Map draws: the checks of a Target message (app/map/messages.go),   *)
(* the projection of a Target on the map image (projection.go), the        *)
(* commands of a frame (frame.go), and the drawing contract as the local   *)
(* preview interprets it (preview.go).  Angles are whole degrees and       *)
(* probabilities are percentages.                                          *)
(***************************************************************************)
EXTENDS Integers, Sequences, FiniteSetsExt

CONSTANT Bounds   \* the geographic bounds of the map image

\* Config.Validate fixes the size of the image.
Width == 960
Height == 640

\* Bounds.validate
BoundsValid(b) ==
    /\ -90 <= b.latMin /\ b.latMin < b.latMax /\ b.latMax <= 90
    /\ -180 <= b.lonMin /\ b.lonMin < b.lonMax /\ b.lonMax <= 180

ASSUME MapFrameAssumption ==
    /\ Bounds \in [latMin : Int, latMax : Int, lonMin : Int, lonMax : Int]
    /\ BoundsValid(Bounds)

-----------------------------------------------------------------------------
\* decodeRecord: one JSON object with exactly the given fields, each once and
\* none null, whose values have the types of the record.
decodeRecord(payload, fields) ==
    /\ payload.shape = "object"
    /\ IsInjective(payload.names) /\ Range(payload.names) = fields
    /\ payload.nulls = {}
    /\ payload.typed

TargetFields == {"targetId", "latitude", "longitude", "probability", "lastSeenAt"}

validCoordinates(t) == t.latitude \in -90..90 /\ t.longitude \in -180..180

ProbabilityValid(t) == t.probability \in 0..100

\* The probability is not looked at.
parseTargetLax(payload) ==
    /\ decodeRecord(payload, TargetFields)
    /\ payload.value.targetId # "" /\ validCoordinates(payload.value)

\* parseTarget: whether the payload is a Target.
parseTarget(payload) ==
    /\ decodeRecord(payload, TargetFields)
    /\ payload.value.targetId # "" /\ validCoordinates(payload.value)
    /\ ProbabilityValid(payload.value)

\* A Target replaces the one with its identifier, or is added at the end.
Merge(targets, target) ==
    IF \E i \in DOMAIN targets : targets[i].targetId = target.targetId
    THEN [i \in DOMAIN targets |->
            IF targets[i].targetId = target.targetId THEN target ELSE targets[i]]
    ELSE Append(targets, target)

-----------------------------------------------------------------------------
\* math.Round of n / d, for n >= 0 and d > 0.
Round(n, d) == (2 * n + d) \div (2 * d)

Inside(t) ==
    /\ t.latitude \in Bounds.latMin..Bounds.latMax
    /\ t.longitude \in Bounds.lonMin..Bounds.lonMax

\* The east and the south edge fall outside the image.
ProjectUnclamped(t) ==
    [x |-> Round((t.longitude - Bounds.lonMin) * Width, Bounds.lonMax - Bounds.lonMin),
     y |-> Round((Bounds.latMax - t.latitude) * Height, Bounds.latMax - Bounds.latMin)]

\* Project, for a Target inside the bounds: north is up, and the east and the
\* south edge use the last pixel.
Project(t) ==
    [x |-> Min({Round((t.longitude - Bounds.lonMin) * Width, Bounds.lonMax - Bounds.lonMin),
                Width - 1}),
     y |-> Min({Round((Bounds.latMax - t.latitude) * Height, Bounds.latMax - Bounds.latMin),
                Height - 1})]

\* BuildFrame refuses a list with an empty or repeated identifier, or a value
\* out of range.
FrameAccepts(targets) ==
    /\ \A i \in DOMAIN targets : /\ targets[i].targetId # ""
                                 /\ ProbabilityValid(targets[i])
                                 /\ validCoordinates(targets[i])
    /\ \A i, j \in DOMAIN targets : targets[i].targetId = targets[j].targetId => i = j

\* The opacity of a marker: 255 * (0.25 + 0.75 * probability).
Alpha(t) == Round(255 * (2500 + 75 * t.probability), 10000)

\* A command of a frame.  "shows" records for which Targets the frame is made.
Plain(name, targets) == [command |-> name, shows |-> targets]

Circle(t, radius, alpha, targets) ==
    [command |-> "DRAW_CIRCLE", shows |-> targets, target |-> t,
     x |-> Project(t).x, y |-> Project(t).y, radius |-> radius, alpha |-> alpha]

\* One turn of the loop of BuildFrame.
Circles(t, targets) ==
    IF Inside(t) THEN <<Circle(t, 13, 255, targets), Circle(t, 10, Alpha(t), targets)>> ELSE <<>>

\* BuildFrame: the fill, the image, two circles for each Target inside the
\* bounds, and the presentation.
BuildFrame(targets) ==
    LET commands[i \in 0..Len(targets)] ==
          IF i = 0 THEN <<Plain("BEGIN_FRAME", targets), Plain("DRAW_IMAGE", targets)>>
          ELSE commands[i - 1] \o Circles(targets[i], targets)
    IN  Append(commands[Len(targets)], Plain("PRESENT", targets))

-----------------------------------------------------------------------------
\* RenderPreview: the commands it accepts, and the layers it paints for them.
PreviewAccepts(commands) ==
    LET names == [i \in DOMAIN commands |-> commands[i].command]
    IN  /\ names # <<>> /\ names[1] = "BEGIN_FRAME" /\ names[Len(names)] = "PRESENT"
        /\ \A i \in DOMAIN names :
             /\ names[i] = "BEGIN_FRAME" => i = 1
             /\ names[i] = "PRESENT" => i = Len(names)
             /\ names[i] = "DRAW_CIRCLE" => /\ commands[i].radius \in 1..128
                                            /\ commands[i].alpha \in 0..255
                                            /\ commands[i].x \in 0..Width - 1
                                            /\ commands[i].y \in 0..Height - 1

RenderPreview(commands) ==
    IF PreviewAccepts(commands) THEN {commands[i] : i \in 1..Len(commands) - 1} ELSE {}

====
