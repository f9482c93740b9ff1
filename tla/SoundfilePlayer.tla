-------------------------- MODULE SoundfilePlayer --------------------------
(***************************************************************************)
(* TTSoundfilePlayer (extensions/SoundfileLib/TTSoundfilePlayer.cpp): the  *)
(* transport attributes and messages set flags and seek, processAudio()    *)
(* reads a vector of frames from where the file is, and adapts its output  *)
(* and its buffer to the file.  Positions and lengths are in frames.       *)
(*                                                                         *)
(* The samples are left out, and so are files that fail to open, which     *)
(* change nothing.  The output belongs to the caller, who may reallocate   *)
(* it between vectors.  sf_read_double() reads nothing unless it is asked  *)
(* for whole frames, and sf_seek() does not move beyond the end.           *)
(***************************************************************************)
EXTENDS Integers, FiniteSetsExt

CONSTANTS Files,        \* records [channels, frames]
          NoFile,
          Seeks,        \* cue times
          VectorSizes,
          OutChannels   \* what a caller allocates for the output

ConstantsOK ==
    /\ \A f \in Files : f.channels \in Nat \ {0} /\ f.frames \in Nat
    /\ NoFile \notin Files
    /\ Seeks \subseteq Nat /\ 0 \in Seeks
    /\ VectorSizes \cup OutChannels \subseteq Nat \ {0}
    /\ VectorSizes # {} /\ OutChannels # {}

VARIABLES mSoundFile, position,             \* the open file, and where it is
          mPlay, mLoop, mContinue, mSeek,
          mNumChannels, mNumBufferFrames,
          mBuffer,                          \* its size
          out,                              \* the output: channels allocated, frames in a vector
          resized                           \* history: the caller resized out after a vector was played

transport == <<mPlay, mLoop, mContinue, mSeek>>
playback == <<mNumChannels, mNumBufferFrames, mBuffer, out, resized>>
vars == <<mSoundFile, position, transport, playback>>

sf_seek(target, from) == IF target <= mSoundFile.frames THEN target ELSE from

(* Samples read, of the many asked for.                                    *)
sf_read_double(asked) ==
    IF asked % mSoundFile.channels # 0 THEN 0
    ELSE Min({asked, (mSoundFile.frames - position) * mSoundFile.channels})

----------------------------------------------------------------------------
Init ==
    /\ mSoundFile = NoFile /\ position = 0
    /\ mPlay = FALSE /\ mLoop = FALSE /\ mContinue = FALSE /\ mSeek = 0
    /\ mNumChannels = 0 /\ mNumBufferFrames = 0 /\ mBuffer = 0
    /\ out = [max |-> CHOOSE n \in OutChannels : TRUE, frames |-> CHOOSE n \in VectorSizes : TRUE]
    /\ resized = FALSE

(* mSeek stays what it was in the file before.                             *)
setFilePath(f) ==
    /\ mSoundFile' = f /\ position' = 0
    /\ mPlay' = FALSE /\ mContinue' = TRUE
    /\ UNCHANGED <<mLoop, mSeek, playback>>

setPlay(on) ==
    /\ mPlay' = on /\ mContinue' = TRUE
    /\ IF ~on /\ mSoundFile # NoFile THEN mSeek' = 0 /\ position' = 0
                                     ELSE UNCHANGED <<mSeek, position>>
    /\ UNCHANGED <<mSoundFile, mLoop, playback>>

setSeek(time) ==
    /\ mSoundFile # NoFile
    /\ mSeek' = time /\ mContinue' = TRUE /\ mPlay' = TRUE
    /\ position' = sf_seek(time, position)
    /\ UNCHANGED <<mSoundFile, mLoop, playback>>

setLoop(on) ==
    /\ mLoop' = on
    /\ UNCHANGED <<mSoundFile, position, mPlay, mContinue, mSeek, playback>>

Pause ==
    /\ mContinue' = FALSE
    /\ UNCHANGED <<mSoundFile, position, mPlay, mLoop, mSeek, playback>>

Resume ==
    /\ mContinue' = TRUE
    /\ UNCHANGED <<mSoundFile, position, mPlay, mLoop, mSeek, playback>>

(* The caller allocates its output anew.                                   *)
Reallocate(max, frames) ==
    /\ out' = [max |-> max, frames |-> frames]
    /\ resized' = (resized \/ (mNumChannels # 0 /\ max # out.max))
    /\ UNCHANGED <<mSoundFile, position, transport, mNumChannels, mNumBufferFrames, mBuffer>>

(* Without a file: silence on one channel.                                 *)
Silent ==
    /\ mSoundFile = NoFile
    /\ out' = [out EXCEPT !.max = 1]
    /\ UNCHANGED <<mSoundFile, position, transport, mNumChannels, mNumBufferFrames, mBuffer, resized>>

(* Slip: the buffer is made anew for another number of frames only.        *)
AdaptedFrames ==
    LET newChannels == out.max # mSoundFile.channels \/ mNumChannels = 0
    IN  /\ mNumChannels' = IF newChannels THEN mSoundFile.channels ELSE mNumChannels
        /\ out' = IF newChannels THEN [out EXCEPT !.max = mSoundFile.channels] ELSE out
        /\ mNumBufferFrames' = out.frames
        /\ mBuffer' = IF mNumBufferFrames # out.frames THEN out.frames * mNumChannels' ELSE mBuffer

(* The output and the buffer, where the file or the vector size ask for    *)
(* others.                                                                 *)
Adapted ==
    LET newChannels == out.max # mSoundFile.channels \/ mNumChannels = 0
    IN  /\ mNumChannels' = IF newChannels THEN mSoundFile.channels ELSE mNumChannels
        /\ out' = IF newChannels THEN [out EXCEPT !.max = mSoundFile.channels] ELSE out
        /\ mNumBufferFrames' = out.frames
        /\ mBuffer' = IF newChannels \/ mNumBufferFrames # out.frames
                      THEN out.frames * mNumChannels' ELSE mBuffer

(* Slip: the end of the file does not stop it.                             *)
PlayedOn(asked) ==
    LET read == sf_read_double(asked)
        behind == position + read \div mSoundFile.channels
    IN  /\ position' = IF read < asked THEN sf_seek(mSeek, behind) ELSE behind
        /\ UNCHANGED mPlay

(* Reads the vector; at the end, back to the cue, to go on only in a loop. *)
Played(asked) ==
    LET read == sf_read_double(asked)
        behind == position + read \div mSoundFile.channels
    IN  /\ position' = IF read < asked THEN sf_seek(mSeek, behind) ELSE behind
        /\ mPlay' = IF read < asked THEN mLoop ELSE mPlay

Playing ==
    /\ mSoundFile # NoFile
    /\ Adapted
    /\ IF mPlay /\ mContinue THEN Played(out.frames * mNumChannels') ELSE UNCHANGED <<position, mPlay>>
    /\ UNCHANGED <<mSoundFile, mLoop, mContinue, mSeek, resized>>

processAudio == Silent \/ Playing

Next ==
    \/ \E f \in Files : setFilePath(f)
    \/ \E on \in BOOLEAN : setPlay(on) \/ setLoop(on)
    \/ \E time \in Seeks : setSeek(time)
    \/ Pause
    \/ Resume
    \/ \E max \in OutChannels, frames \in VectorSizes : Reallocate(max, frames)
    \/ processAudio

Spec == Init /\ [][Next]_vars

(* The host calls it for every vector.                                     *)
FairSpec == Spec /\ WF_vars(processAudio)

----------------------------------------------------------------------------
TypeOK ==
    /\ mSoundFile \in Files \cup {NoFile} /\ position \in Nat
    /\ mSoundFile # NoFile => position <= mSoundFile.frames
    /\ {mPlay, mLoop, mContinue, resized} \subseteq BOOLEAN
    /\ {mSeek, mNumChannels, mNumBufferFrames, mBuffer} \subseteq Nat
    /\ out \in [max : Nat, frames : Nat]

(* Files of other widths are opened, vectors change their size, a caller   *)
(* allocates: what a vector reads and writes always has its room in the    *)
(* buffer, and in the output too, as long as the caller does not resize it *)
(* between two vectors (hazard TTSoundfilePlayer.cpp:136).                 *)
VectorFits ==
    [][Playing => /\ mBuffer' = mNumBufferFrames' * mNumChannels'
                  /\ ~resized => mNumChannels' = mSoundFile.channels /\ out'.max = mNumChannels']_vars

(* Left alone, a player that does not loop comes to the end of its file    *)
(* and stops, from whatever state its messages, and a cue time of another  *)
(* file, left it in.                                                       *)
LeftAloneEnds ==
    <>[][processAudio]_vars => <>[](mSoundFile = NoFile \/ ~mPlay \/ mLoop \/ ~mContinue)
=============================================================================
