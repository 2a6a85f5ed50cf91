------------------------------ MODULE SysCalls ------------------------------
(***************************************************************************)
(* The table of the system calls of kernel/sys.c, in its order, and the    *)
(* numbers under which include/unistd.h calls them.  The two lists are     *)
(* kept by hand.  A function is known by its name without "sys_".          *)
(***************************************************************************)
EXTENDS Naturals, Sequences, SequencesExt

sys_call_table ==
    <<
      "setup", "exit", "fork", "read", "write", "open", "close", "waitpid",
      "creat", "link", "unlink", "execve", "chdir", "time", "mknod",
      "chmod", "chown", "break", "stat", "lseek", "getpid", "mount",
      "umount", "setuid", "getuid", "stime", "ptrace", "alarm", "fstat",
      "pause", "utime", "stty", "gtty", "access", "nice", "ftime", "sync",
      "kill", "rename", "mkdir", "rmdir", "dup", "pipe", "times", "prof",
      "brk", "setgid", "getgid", "signal", "geteuid", "getegid", "acct",
      "phys", "lock", "ioctl", "fcntl", "mpx", "setpgid", "ulimit", "uname",
      "umask", "chroot", "ustat", "dup2", "getppid", "getpgrp", "setsid",
      "sigaction", "sgetmask", "ssetmask", "setreuid", "setregid",
      "sigsuspend", "sigpending", "sethostname", "setrlimit", "getrlimit",
      "getrusage", "gettimeofday", "settimeofday", "getgroups", "setgroups",
      "select", "symlink", "lstat", "readlink", "uselib"
    >>

\* "So we don't have to do any more manual updating....": counted, not written.
NR_syscalls == Len(sys_call_table)

__NR ==
    [
      setup |-> 0, exit |-> 1, fork |-> 2, read |-> 3, write |-> 4,
      open |-> 5, close |-> 6, waitpid |-> 7, creat |-> 8, link |-> 9,
      unlink |-> 10, execve |-> 11, chdir |-> 12, time |-> 13, mknod |-> 14,
      chmod |-> 15, chown |-> 16, break |-> 17, stat |-> 18, lseek |-> 19,
      getpid |-> 20, mount |-> 21, umount |-> 22, setuid |-> 23,
      getuid |-> 24, stime |-> 25, ptrace |-> 26, alarm |-> 27,
      fstat |-> 28, pause |-> 29, utime |-> 30, stty |-> 31, gtty |-> 32,
      access |-> 33, nice |-> 34, ftime |-> 35, sync |-> 36, kill |-> 37,
      rename |-> 38, mkdir |-> 39, rmdir |-> 40, dup |-> 41, pipe |-> 42,
      times |-> 43, prof |-> 44, brk |-> 45, setgid |-> 46, getgid |-> 47,
      signal |-> 48, geteuid |-> 49, getegid |-> 50, acct |-> 51,
      phys |-> 52, lock |-> 53, ioctl |-> 54, fcntl |-> 55, mpx |-> 56,
      setpgid |-> 57, ulimit |-> 58, uname |-> 59, umask |-> 60,
      chroot |-> 61, ustat |-> 62, dup2 |-> 63, getppid |-> 64,
      getpgrp |-> 65, setsid |-> 66, sigaction |-> 67, sgetmask |-> 68,
      ssetmask |-> 69, setreuid |-> 70, setregid |-> 71, sigsuspend |-> 72,
      sigpending |-> 73, sethostname |-> 74, setrlimit |-> 75,
      getrlimit |-> 76, getrusage |-> 77, gettimeofday |-> 78,
      settimeofday |-> 79, getgroups |-> 80, setgroups |-> 81,
      select |-> 82, symlink |-> 83, lstat |-> 84, readlink |-> 85,
      uselib |-> 86
    ]

\* The functions of sys_call.asm; the others are the empty ones of sys.c.
AssemblerCalls == {"fork", "execve"}

\* The name that the call [sys_call_table + eax * 4] reaches.
FunctionOf(n) == sys_call_table[n + 1]
=============================================================================
