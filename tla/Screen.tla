------------------------------- MODULE Screen -------------------------------
(***************************************************************************)
(* The CyberPi's screen: the calls of display.cpp that draw into the frame *)
(* buffer, the thread that sends the frame to the panel when the semaphore *)
(* _render_ready is given (cyberpi.cpp, lcd.c), the font chip on the same  *)
(* SPI bus, and the sensor thread started with them.                       *)
(*                                                                         *)
(* The boot task (then the app's loop) draws; so does the serial worker,   *)
(* on "display text", "display clear" and "display ping".  A call is a     *)
(* sequence of steps; nothing keeps two callers' steps apart.              *)
(*                                                                         *)
(* The panel is cut into strips, one for each line of the log.             *)
(***************************************************************************)
EXTENDS Glyphs

CONSTANTS Drawers,   \* the tasks that draw: "boot", "worker"
          Messages,  \* what draw_log may be asked to show
          TableCodes,\* what the font chip may know of a letter (a subset of Codes)
          MaxLines,  \* lines the log keeps (7)
          BootLogs,  \* messages of the boot before the team picture
          Updates,   \* rounds of App::update, at most
          Overlap,   \* whether a display command may come while the boot or the app
                     \* draws, and the other way round
          Commands,  \* display commands of the console, at most
          GyroFound  \* whether the gyro answers: the cases to look at

ASSUME ScreenAssumption ==
  /\ MaxLines \in Nat \ {0} /\ BootLogs \in Nat /\ TableCodes \subseteq Codes
  /\ "boot" \in Drawers /\ Drawers \subseteq {"boot", "worker"}
  /\ \A m \in Messages: m.letter \in Letters /\ m.text \in Seq(Nat) /\ m.text # <<>>

VARIABLES job,      \* drawer -> the steps its call has left
          up,       \* what CyberPi::begin has brought up, and the console
          log,      \* logMessages
          temp,     \* tempBitmaps
          frame,    \* _framebuffer: strip -> what is drawn there
          fresh,    \* the last render_lcd may be within 20 ms
          outlives, \* drawer -> its delay ends more than 20 ms after any render
          asked,    \* _render_ready has been given
          lcd,      \* the LCD thread: 0, or the transaction it sends next
          panel,    \* the controller of the panel and what it shows
          reading,  \* drawer -> its read of the font chip: "no", "clean", "broken"
          gyro,     \* the gyro answers with its id
  harm,     \* what was destroyed too early or twice
          updates, commands

drawvars == <<log, temp, frame>>
vars == <<job, up, drawvars, fresh, outlives, asked, lcd, panel, reading, gyro, harm, updates, commands>>

Strips == 1..MaxLines

\* what a strip of the frame shows: a part of a picture or a line of text, its
\* letters as they came from the font chip
NoLine == [m |-> [text |-> <<>>, letter |-> 0], seg |-> 0, from |-> 0, len |-> 0]
Shows(name) == [what |-> name, line |-> NoLine, letters |-> "no"]
ShowsText(name, letters) == [what |-> name, line |-> NoLine, letters |-> letters]
ShowsLine(line, letters) == [what |-> "line", line |-> line, letters |-> letters]
Black == Shows("black")
AllStrips(x) == [s \in Strips |-> x]

-----------------------------------------------------------------------------
(* The steps of the calls.                                                 *)

Step(name) == [op |-> name]
Text(what, x, strip, letters, size, kept) ==
  [op |-> "text", what |-> what, x |-> x, strip |-> strip, letters |-> letters,
   size |-> size, kept |-> kept]
\* the two pictures of the firmware, and what is drawn pixel by pixel
BootPicture == [op |-> "picture", what |-> "boot"]
TeamPicture == [op |-> "picture", what |-> "team"]
BootFrame == [op |-> "picture", what |-> "box"]
PingPattern == [op |-> "picture", what |-> "ping"]

\* cleanup_bitmaps: destroys every bitmap, then clears the vector
CleanupBitmaps_destroy == <<Step("destroy")>>
CleanupBitmaps == <<Step("destroy"), Step("unlink")>>

DrawLog_impatient == <<Step("append")>> \o CleanupBitmaps \o
  <<Step("clean"), [op |-> "line", i |-> 1], Step("render")>> \o CleanupBitmaps
DrawLog == <<Step("append")>> \o CleanupBitmaps \o
  <<Step("clean"), [op |-> "line", i |-> 1], Step("render"), Step("delay")>> \o
  CleanupBitmaps

DrawBoot ==
  <<Step("clean"), BootPicture, Step("render"), Step("delay"), Step("clean"), BootFrame,
    Text("HkVLib", 16, 1, 6, 18, TRUE), Text("Firmware Boot", 16, MaxLines, 13, 12, TRUE),
    Step("render")>> \o CleanupBitmaps

DrawTeam == CleanupBitmaps \o <<Step("clean"), TeamPicture, Step("render"), Step("delay")>>

Clear == <<Step("forget")>> \o CleanupBitmaps \o <<Step("clean"), Step("render"), Step("delay")>>

DisplayPing == <<Step("clean"), PingPattern, Step("render"), Step("delay")>> \o DrawLog

\* CyberPi::begin, Display::initialize and the title; its bitmap is never freed
BeginDisplay ==
  <<Step("io"), Step("lcd"), Step("gyro"), Step("threads"), Step("ready"),
    Text("title", 4, 1, 15, 16, FALSE), Step("render")>>

\* what app_main draws, in order.  Delays of its own stand between the calls where
\* it waits for something else; that another task gets to draw there needs none.
BootProgram ==
  BeginDisplay \o DrawLog \o <<Step("console")>> \o DrawBoot \o <<Step("delay")>> \o
  FlattenSeq([k \in 1..BootLogs |-> DrawLog]) \o
  DrawTeam \o Clear \o Clear \o DrawLog

-----------------------------------------------------------------------------
(* The panel's controller (ST7735).                                        *)

PanelOff == [awake |-> FALSE, on |-> FALSE, reg |-> "none", cols |-> <<0, 0>>,
             rows |-> <<0, 0>>, at |-> 0, shows |-> AllStrips(Black)]

Command(name) == [cmd |-> name, data |-> <<0, 0>>]
Window(name, first, last) == [cmd |-> name, data |-> <<first, last>>]

\* the panel's answer to a command and its data
Obey(p, c) ==
  CASE c.cmd = "SWRESET" -> PanelOff
    [] c.cmd = "SLPOUT" -> [p EXCEPT !.awake = TRUE, !.reg = c.cmd]
    [] c.cmd = "DISPON" -> [p EXCEPT !.on = TRUE, !.reg = c.cmd]
    [] c.cmd = "CASET"  -> [p EXCEPT !.cols = c.data, !.reg = c.cmd]
    [] c.cmd = "RASET"  -> [p EXCEPT !.rows = c.data, !.reg = c.cmd]
    [] c.cmd = "RAMWR"  -> [p EXCEPT !.at = 1, !.reg = c.cmd]
    [] c.cmd = "other"  -> [p EXCEPT !.reg = c.cmd]

\* st7735_init_cmds; the commands for rates, power and gamma are one
InitCommands ==
  <<Command("SWRESET"), Command("SLPOUT"), Command("other"), Window("CASET", 2, 129),
    Window("RASET", 1, 160), Command("other"), Command("DISPON")>>

\* lcd_config sends them all, after a hardware reset
LcdConfig == FoldLeft(Obey, PanelOff, InitCommands)

\* lcd_draw: setAddrWindow (LCD_XSTART 3, LCD_YSTART 2), then the strips in order
XStart == 3
YStart == 2
AddrWindow == <<Window("CASET", XStart, 127 + XStart),
                Window("RASET", YStart, 127 + YStart), Command("RAMWR")>>
Transactions == Len(AddrWindow) + MaxLines

\* a strip of pixels lands where the write pointer stands, if it stands somewhere
\* and the window is the visible part
Pixels(p, x) ==
  IF p.reg = "RAMWR" /\ p.at \in Strips
  THEN [p EXCEPT !.shows[p.at] =
          IF p.cols = <<XStart, 127 + XStart>> /\ p.rows = <<YStart, 127 + YStart>>
          THEN x ELSE Shows("shifted"),
        !.at = @ + 1]
  ELSE p

-----------------------------------------------------------------------------
(* What a drawer does.                                                     *)

Doing(d, name) == job[d] # <<>> /\ Head(job[d]).op = name
Done(d) == job' = [job EXCEPT ![d] = Tail(@)]
Instead(d, step) == job' = [job EXCEPT ![d] = <<step>> \o Tail(@)]

\* i2c_init, aw_init, begin_gpio
BeginIo(d) ==
  /\ Doing(d, "io") /\ Done(d)
  /\ up' = up \cup {"io"}
  /\ UNCHANGED <<drawvars, fresh, outlives, asked, lcd, panel, reading, gyro, harm, updates, commands>>

\* begin_lcd: allocates a black frame and sets the panel up
BeginLcd(d) ==
  /\ Doing(d, "lcd") /\ Done(d)
  /\ up' = up \cup {"lcd"}
  /\ frame' = AllStrips(Black)
  /\ panel' = LcdConfig
  /\ UNCHANGED <<log, temp, fresh, outlives, asked, lcd, reading, gyro, harm,
                 updates, commands>>

\* gyro_init: without the right id it returns before it allocates; nobody looks
BeginGyro(d) ==
  /\ Doing(d, "gyro") /\ Done(d)
  /\ up' = IF gyro THEN up \cup {"gyro"} ELSE up
  /\ UNCHANGED <<drawvars, fresh, outlives, asked, lcd, panel, reading, gyro, harm, updates, commands>>

\* begin's threads; Display::initialize; startSerialInputDaemon
StartPart(d) ==
  /\ \E name \in {"threads", "ready", "console"}:
       Doing(d, name) /\ up' = up \cup {name}
  /\ Done(d)
  /\ UNCHANGED <<drawvars, fresh, outlives, asked, lcd, panel, reading, gyro, harm, updates, commands>>

KeepLast(s) == IF Len(s) > MaxLines THEN SubSeq(s, Len(s) - MaxLines + 1, Len(s)) ELSE s

\* draw_log's first half: the message becomes lines, the oldest lines go
AppendLog(d) ==
  /\ Doing(d, "append") /\ Done(d)
  /\ \E m \in Messages: log' = KeepLast(log \o Wrap(m))
  /\ UNCHANGED <<up, temp, frame, fresh, outlives, asked, lcd, panel, reading, gyro,
                 harm, updates, commands>>

Forget(d) ==
  /\ Doing(d, "forget") /\ Done(d)
  /\ log' = <<>>
  /\ UNCHANGED <<up, temp, frame, fresh, outlives, asked, lcd, panel, reading, gyro,
                 harm, updates, commands>>

\* destroy_bitmap on every bitmap of the vector
Destroy(d) ==
  /\ Doing(d, "destroy") /\ Done(d)
  /\ harm' = harm \cup (IF \E i \in DOMAIN temp: temp[i].freed THEN {"twice"} ELSE {})
                  \cup (IF \E i \in DOMAIN temp: ~temp[i].rendered THEN {"early"} ELSE {})
  /\ temp' = [i \in DOMAIN temp |-> [temp[i] EXCEPT !.freed = TRUE]]
  /\ UNCHANGED <<up, log, frame, fresh, outlives, asked, lcd, panel, reading, gyro,
                 updates, commands>>

Unlink(d) ==
  /\ Doing(d, "unlink") /\ Done(d)
  /\ temp' = <<>>
  /\ UNCHANGED <<up, log, frame, fresh, outlives, asked, lcd, panel, reading, gyro,
                 harm, updates, commands>>

\* clean_lcd
Clean(d) ==
  /\ Doing(d, "clean") /\ Done(d)
  /\ frame' = AllStrips(Black)
  /\ UNCHANGED <<up, log, temp, fresh, outlives, asked, lcd, panel, reading, gyro,
                 harm, updates, commands>>

\* draw_bitmap, and the pixels of draw_boot and DisplayPing
Picture(d) ==
  /\ Doing(d, "picture") /\ Done(d)
  /\ frame' = AllStrips(Shows(Head(job[d]).what))
  /\ UNCHANGED <<up, log, temp, fresh, outlives, asked, lcd, panel, reading, gyro,
                 harm, updates, commands>>

\* the line of the log the drawer is about to draw
LineAt(d) == log[Head(job[d]).i]
HasLine(d) == Doing(d, "line") /\ Head(job[d]).i <= Len(log)

\* draw_text draws nothing for an empty line; after the last line the loop ends
SkipLine(d) ==
  /\ Doing(d, "line") /\ reading[d] = "no"
  /\ IF HasLine(d) THEN LineAt(d).len = 0 /\ Instead(d, [op |-> "line", i |-> Head(job[d]).i + 1])
     ELSE Done(d)
  /\ UNCHANGED <<up, drawvars, fresh, outlives, asked, lcd, panel, reading, gyro, harm, updates, commands>>

\* r_dat_bat pulls the font chip's select line low and sends command and address
OpenFont(d) ==
  /\ Doing(d, "text") \/ (HasLine(d) /\ LineAt(d).len > 0)
  /\ reading[d] = "no"
  /\ reading' = [e \in Drawers |-> IF e = d
                                   THEN IF \E f \in Drawers: reading[f] # "no" THEN "broken"
                                        ELSE "clean"
                                   ELSE IF reading[e] = "no" THEN "no" ELSE "broken"]
  /\ UNCHANGED <<job, up, drawvars, fresh, outlives, asked, lcd, panel, gyro, harm, updates, commands>>

\* the bitmap of a text, kept in tempBitmaps until it is destroyed
Drawn(x, b) == [x |-> x, bitmap |-> b, rendered |-> FALSE, freed |-> FALSE]

\* create_text has its letters, set_bitmap copies them into the frame, draw_text
\* keeps the bitmap; the title's is not kept
DrawText(d) ==
  /\ reading[d] # "no" /\ Doing(d, "text")
  /\ LET t == Head(job[d])
     IN  /\ frame' = [frame EXCEPT ![t.strip] = ShowsText(t.what, reading[d])]
         /\ temp' = IF t.kept
                    THEN Append(temp, Drawn(t.x, BitmapOf(\h41, t.letters, t.size, "none")))
                    ELSE temp
  /\ Done(d)
  /\ reading' = [reading EXCEPT ![d] = "no"]
  /\ UNCHANGED <<up, log, fresh, outlives, asked, lcd, panel, gyro, harm,
                 updates, commands>>

\* the same for a line of the log, at x = 2; the next line follows
DrawLine(d) ==
  /\ reading[d] # "no" /\ HasLine(d)
  /\ LET i == Head(job[d]).i
     IN  /\ frame' = [frame EXCEPT ![i] = ShowsLine(LineAt(d), reading[d])]
         /\ \E code \in TableCodes:
              temp' = Append(temp, Drawn(2, BitmapOf(LineAt(d).m.letter, LineAt(d).len, 12, code)))
         /\ Instead(d, [op |-> "line", i |-> i + 1])
  /\ reading' = [reading EXCEPT ![d] = "no"]
  /\ UNCHANGED <<up, log, fresh, outlives, asked, lcd, panel, gyro, harm,
                 updates, commands>>

\* render_lcd gives the semaphore, but not within 20 ms of the last time, which it
\* may be when no delay has ended since
Render(d) ==
  /\ Doing(d, "render") /\ Done(d)
  /\ \/ fresh /\ UNCHANGED <<fresh, asked, outlives>>
     \/ fresh' = TRUE /\ asked' = TRUE /\ outlives' = [e \in Drawers |-> FALSE]
  /\ temp' = [i \in DOMAIN temp |-> [temp[i] EXCEPT !.rendered = TRUE]]
  /\ UNCHANGED <<up, log, frame, lcd, panel, reading, gyro, harm, updates,
                 commands>>

\* delay(25), (30) or (2000): at its end every render before it is 20 ms old
StartDelay(d) ==
  /\ Doing(d, "delay") /\ Instead(d, Step("delaying"))
  /\ outlives' = [outlives EXCEPT ![d] = TRUE]
  /\ UNCHANGED <<up, drawvars, fresh, asked, lcd, panel, reading, gyro, harm,
                 updates, commands>>

EndDelay(d) ==
  /\ Doing(d, "delaying") /\ Done(d)
  /\ fresh' = (fresh /\ ~outlives[d])
  /\ outlives' = [outlives EXCEPT ![d] = FALSE]
  /\ UNCHANGED <<up, drawvars, asked, lcd, panel, reading, gyro, harm, updates,
                 commands>>

-----------------------------------------------------------------------------
(* Who calls.                                                              *)

\* App::update prints twice
AppUpdate ==
  /\ job["boot"] = <<>> /\ updates < Updates
  /\ Overlap \/ \A d \in Drawers: job[d] = <<>>
  /\ job' = [job EXCEPT !["boot"] = DrawLog \o DrawLog]
  /\ updates' = updates + 1
  /\ UNCHANGED <<up, drawvars, fresh, outlives, asked, lcd, panel, reading, gyro, harm, commands>>

\* handleDisplayText, handleDisplayClear, DisplayPing; all look whether the display
\* is ready
DisplayCommand ==
  /\ "worker" \in Drawers /\ job["worker"] = <<>>
  /\ {"console", "ready"} \subseteq up /\ commands < Commands
  /\ Overlap \/ job["boot"] = <<>>
  /\ \E call \in {DrawLog, Clear, DisplayPing}: job' = [job EXCEPT !["worker"] = call]
  /\ commands' = commands + 1
  /\ UNCHANGED <<up, drawvars, fresh, outlives, asked, lcd, panel, reading, gyro, harm, updates>>

-----------------------------------------------------------------------------
(* The threads CyberPi::begin starts.                                      *)

\* _on_lcd_thread takes the semaphore; lcd_draw begins.  After 25 ticks without
\* it the thread only asks again.
TakeRender ==
  /\ "threads" \in up /\ lcd = 0 /\ asked
  /\ asked' = FALSE
  /\ lcd' = 1
  /\ UNCHANGED <<job, up, drawvars, fresh, outlives, panel, reading, gyro, harm,
                 updates, commands>>

\* one transaction of lcd_draw, with the D/C line set for it.  The mutex _spi_mux
\* is held for it alone: a font chip that is selected meanwhile hears it too.
Transmit ==
  /\ lcd > 0
  /\ panel' = IF lcd <= Len(AddrWindow) THEN Obey(panel, AddrWindow[lcd])
              ELSE Pixels(panel, frame[lcd - Len(AddrWindow)])
  /\ lcd' = (lcd + 1) % (Transactions + 1)
  /\ reading' = [d \in Drawers |-> IF reading[d] = "no" THEN "no" ELSE "broken"]
  /\ UNCHANGED <<job, up, drawvars, fresh, outlives, asked, gyro, harm, updates,
                 commands>>

-----------------------------------------------------------------------------
InitJob == [d \in Drawers |-> IF d = "boot" THEN BootProgram ELSE <<>>]
NoDrawer(x) == [d \in Drawers |-> x]

Init ==
  /\ gyro \in GyroFound
  /\ job = InitJob /\ up = {} /\ log = <<>> /\ temp = <<>> /\ frame = AllStrips(Black)
  /\ fresh = FALSE /\ asked = FALSE /\ lcd = 0 /\ panel = PanelOff
  /\ outlives = NoDrawer(FALSE) /\ reading = NoDrawer("no")
  /\ harm = {} /\ updates = 0 /\ commands = 0

\* _on_sensor_thread calls gyro_read every 25 ms.  With its buffers that touches
\* nothing here; without them the robot panics and starts again, and the panel
\* keeps what it has.
GyroPanic ==
  /\ "threads" \in up /\ "gyro" \notin up
  /\ job' = InitJob /\ up' = {} /\ log' = <<>> /\ temp' = <<>> /\ frame' = AllStrips(Black)
  /\ fresh' = FALSE /\ asked' = FALSE /\ lcd' = 0
  /\ outlives' = NoDrawer(FALSE) /\ reading' = NoDrawer("no")
  /\ harm' = {} /\ updates' = 0 /\ commands' = 0
  /\ UNCHANGED <<panel, gyro>>

Draws(d) ==
  \/ BeginIo(d) \/ BeginLcd(d) \/ BeginGyro(d) \/ StartPart(d)
  \/ AppendLog(d) \/ Forget(d) \/ Destroy(d) \/ Unlink(d) \/ Clean(d) \/ Picture(d)
  \/ SkipLine(d) \/ OpenFont(d) \/ DrawText(d) \/ DrawLine(d)
  \/ Render(d) \/ StartDelay(d) \/ EndDelay(d)

Next ==
  \/ \E d \in Drawers: Draws(d)
  \/ AppUpdate \/ DisplayCommand
  \/ TakeRender \/ Transmit \/ GyroPanic

\* every task gets to run
Fairness == /\ \A d \in Drawers: WF_vars(Draws(d))
            /\ WF_vars(TakeRender) /\ WF_vars(Transmit)

Spec == Init /\ [][Next]_vars /\ Fairness

-----------------------------------------------------------------------------
(* Properties.                                                             *)

\* the line that follows a line of the same message: where it stops, or the next
\* piece when it ends its own
Follows(a, b) ==
  \/ /\ a.m = b.m /\ a.seg = b.seg
     /\ b.from = a.from + a.len /\ b.len > 0
  \/ /\ a.m = b.m /\ b.seg = a.seg + 1
     /\ a.from + a.len = a.m.text[a.seg] /\ b.from = 0

\* the last line of a message, and the first
Ends(a) == a.seg = Len(Segments(a.m)) /\ a.from + a.len = a.m.text[a.seg]
Starts(a) == a.seg = 1 /\ a.from = 0

\* The log shows the end of what was logged without a gap: each line follows the
\* one above or starts a message after the end of another, and the last line ends
\* the newest message (display.cpp:152-198).
LogIsTail ==
  /\ \A i \in 1..(Len(log) - 1): Follows(log[i], log[i + 1])
                                  \/ (Ends(log[i]) /\ Starts(log[i + 1]))
  /\ log # <<>> => Ends(Last(log))

\* A line of text lies in the bitmap made for it and in the 256 columns of a
\* coordinate: no letter is written past the buffer, none comes back at the left
\* margin (cyberpi.cpp:126-129, 190, 200, 218).
GlyphsInside ==
  \A i \in DOMAIN temp:
    LET b == temp[i].bitmap
    IN  /\ temp[i].x + b.end <= 256
        /\ LastPixel(b) < b.width * b.height

\* When no two calls overlap, each bitmap is destroyed once, and only after a render
\* (display.cpp:65 "DON'T destroy before rendering!").
DestroyedOnce == harm = {}

\* When the drawing ends, the panel comes to show the frame, whole and in place:
\* the throttle, the semaphore and the thread that was still sending the frame
\* before lose nothing of the last one (cyberpi.cpp:51-62, 259-267).  A robot
\* whose gyro does not answer never gets that far.
LastFrameShown ==
  gyro => <>[](panel.on /\ panel.awake /\ panel.shows = frame)
=============================================================================
